---- MODULE Spec2Model ----
(***************************************************************************)
(* A model of HiveMonitorTUI's concurrent action-execution core: the       *)
(* shared App state (src/app.rs), the event loop that mutates it under a   *)
(* tokio Mutex (src/events/handler.rs), the background action task it      *)
(* spawns, and the NDJSON streaming loop the task runs                     *)
(* (src/clients/infer_client.rs).                                          *)
(*                                                                         *)
(* Scheduling.  The event loop and every spawned task run on the tokio     *)
(* multi-thread runtime (#[tokio::main], src/main.rs:31).  One model step  *)
(* of an actor is one critical section `lock().await ... drop`, or one     *)
(* return from a network await.  AbortHandle::abort() only requests        *)
(* cancellation: a task that is suspended at an await never runs again, a  *)
(* task that is being polled on another worker keeps running until one of  *)
(* its awaits returns Pending.  A lock().await on a free Mutex does not    *)
(* return Pending, so an aborted task that was between two awaits may      *)
(* still take the lock; whether it does is a nondeterministic choice.      *)
(*                                                                         *)
(* Specifications.  Spec is handle_events with arbitrary keys and the      *)
(* tasks it spawns; SpecViews adds the views and the Console request;      *)
(* SpecStore applies the methods of App to App values a caller can build;  *)
(* SpecIngest is the streaming loop over every chunking of a stream;       *)
(* SpecE2E is a scripted session; SpecLive is the confirmed action under   *)
(* fair scheduling; SpecRun is one action from its request to its return;  *)
(* SpecPoll is the Tick arm of handle_events (handler.rs 280-307), which   *)
(* writes only the worker caches, between navigation keys; SpecLock is the *)
(* Mutex with a task's critical section in two steps; SpecSpawner is the   *)
(* EventSpawner (src/events/spawner.rs) with the loop receiving from it,   *)
(* under fair scheduling; SpecBanners is add_banner and dismiss_banner     *)
(* alone; SpecSelect is the action list with a name left in the buffer;    *)
(* SpecNode is the input and confirmation panels while the Tick arm        *)
(* replaces the worker list; SpecInput is the input panel alone, with a    *)
(* two-byte character among the keys.                                      *)
(***************************************************************************)
EXTENDS Integers, Sequences, FiniteSets, TLC

(***************************************************************************)
(* Bounds of the model (not program constants).                            *)
(***************************************************************************)
MaxBanners == 1
MaxTasks == 2
MaxNameLen == 1
MaxChunkLen == 5
MaxConsoleLen == 1

(***************************************************************************)
(* Program constants.                                                      *)
(***************************************************************************)
U16 == 65536

Min(a, b) == IF a < b THEN a ELSE b
Max(a, b) == IF a > b THEN a ELSE b

RECURSIVE Cat(_)
Cat(q) == IF q = <<>> THEN "" ELSE Head(q) \o Cat(Tail(q))

(***************************************************************************)
(* src/app.rs: the types.                                                  *)
(***************************************************************************)
Focus ==
  {"WorkersList", "ActionsList", "GlobalView",
   "ActionPanelInput", "ActionPanelConfirm", "ActionPanelResponse"}

MainViewFocus == {"WorkersList", "ActionsList", "GlobalView"}

TabAll == <<"Dashboard", "Nodes", "Queues", "Keys", "Console", "Logs">>

worker_actions == <<"Pull model", "Delete model">>

\* ActionPanelState, one record shape for the five variants; the fields a
\* variant does not carry hold the fixed values below.
PanelNone ==
  [kind |-> "None", name |-> <<>>, atype |-> "Pull", lines |-> <<>>, ok |-> TRUE]
PanelPullModel == [PanelNone EXCEPT !.kind = "PullModel"]
PanelDeleteModel == [PanelNone EXCEPT !.kind = "DeleteModel"]
Confirmation(name, atype) ==
  [PanelNone EXCEPT !.kind = "Confirmation", !.name = name, !.atype = atype]
Response(name, atype, lines, ok) ==
  [kind |-> "Response", name |-> name, atype |-> atype, lines |-> lines, ok |-> ok]

\* Option<T>: None, or the value.
None == "None"

\* Option<WorkerStatuses>: None, or the names the map has a status for.
NoStatuses == [some |-> FALSE, names |-> {}]
SomeStatuses(S) == [some |-> TRUE, names |-> S]

\* App::new
AppNew ==
  [ console_input |-> <<>>,
    active_profile |-> 0,
    current_tab |-> "Dashboard",
    banners |-> <<>>,
    worker_versions |-> None,
    worker_statuses |-> NoStatuses,
    worker_connections |-> None,
    worker_pings |-> None,
    worker_tags |-> None,
    queue_map |-> None,
    auth_keys |-> None,
    generate_response |-> None,
    console_output |-> <<>>,
    focus |-> "WorkersList",
    selected_worker |-> 0,
    selected_action |-> 0,
    action_panel_state |-> PanelNone,
    confirmation_selection |-> 0,
    action_input_model_name |-> <<>>,
    action_input_cursor_position |-> 0,
    action_panel_scroll |-> 0,
    action_task_handle |-> 0,
    is_action_in_progress |-> FALSE ]

(***************************************************************************)
(* src/app.rs: the methods, as functions from App to App.                  *)
(***************************************************************************)
TabPosition(t) == CHOOSE i \in 1..Len(TabAll) : TabAll[i] = t

next_tab(a) ==
  [a EXCEPT !.current_tab = TabAll[(TabPosition(@) % Len(TabAll)) + 1]]

prev_tab(a) ==
  [a EXCEPT !.current_tab =
     TabAll[((TabPosition(@) - 1 + Len(TabAll) - 1) % Len(TabAll)) + 1]]

add_banner(a, msg) == [a EXCEPT !.banners = Append(@, msg)]

\* dismiss_banner removing the newest banner (pop) instead of the oldest.
dismiss_banner_newest(a) ==
  IF a.banners # <<>>
  THEN [a EXCEPT !.banners = SubSeq(@, 1, Len(@) - 1)] ELSE a

dismiss_banner(a) ==
  IF a.banners # <<>> THEN [a EXCEPT !.banners = Tail(@)] ELSE a

\* clear_caches without `self.worker_tags = None`.
clear_caches_keeps_tags(a) ==
  LET b == IF a.action_task_handle # 0
           THEN add_banner([a EXCEPT !.action_task_handle = 0],
                           "Cancelled active action task.")
           ELSE a
  IN [b EXCEPT !.is_action_in_progress = FALSE,
               !.worker_versions = None,
               !.worker_statuses = NoStatuses,
               !.worker_connections = None,
               !.worker_pings = None,
               !.queue_map = None,
               !.auth_keys = None,
               !.generate_response = None,
               !.console_output = <<>>,
               !.console_input = <<>>,
               !.action_panel_state = PanelNone,
               !.confirmation_selection = 0]

\* clear_caches without its first block: the handle stays.
clear_caches_keeps_handle(a) ==
  [a EXCEPT !.is_action_in_progress = FALSE,
            !.worker_versions = None,
            !.worker_statuses = NoStatuses,
            !.worker_connections = None,
            !.worker_pings = None,
            !.worker_tags = None,
            !.queue_map = None,
            !.auth_keys = None,
            !.generate_response = None,
            !.console_output = <<>>,
            !.console_input = <<>>,
            !.action_panel_state = PanelNone,
            !.confirmation_selection = 0]

clear_caches(a) ==
  LET b == IF a.action_task_handle # 0
           THEN add_banner([a EXCEPT !.action_task_handle = 0],
                           "Cancelled active action task.")
           ELSE a
  IN [b EXCEPT !.is_action_in_progress = FALSE,
               !.worker_versions = None,
               !.worker_statuses = NoStatuses,
               !.worker_connections = None,
               !.worker_pings = None,
               !.worker_tags = None,
               !.queue_map = None,
               !.auth_keys = None,
               !.generate_response = None,
               !.console_output = <<>>,
               !.console_input = <<>>,
               !.action_panel_state = PanelNone,
               !.confirmation_selection = 0]

NumProfiles == 2

set_active_profile(a, index) ==
  IF index < NumProfiles
  THEN clear_caches([a EXCEPT !.active_profile = index])
  ELSE a

workers_len(a) ==
  IF a.worker_statuses.some THEN Cardinality(a.worker_statuses.names) ELSE 0

focus_up(a) ==
  CASE a.focus = "WorkersList" ->
         IF a.selected_worker > 0
         THEN [a EXCEPT !.selected_worker = @ - 1] ELSE a
    [] a.focus = "ActionsList" ->
         IF a.selected_action > 0
         THEN [a EXCEPT !.selected_action = @ - 1] ELSE a
    [] OTHER -> a

focus_down(a) ==
  CASE a.focus = "WorkersList" ->
         IF a.selected_worker < Max(workers_len(a) - 1, 0)
         THEN [a EXCEPT !.selected_worker = @ + 1] ELSE a
    [] a.focus = "ActionsList" ->
         IF a.selected_action < Max(Len(worker_actions) - 1, 0)
         THEN [a EXCEPT !.selected_action = @ + 1] ELSE a
    [] OTHER -> a

\* The reset of the input without `action_input_model_name.clear()`.
ResetInputKeepsName(a) ==
  [a EXCEPT !.action_input_cursor_position = 0,
            !.action_panel_scroll = 0]

ResetInput(a) ==
  [a EXCEPT !.action_input_model_name = <<>>,
            !.action_input_cursor_position = 0,
            !.action_panel_scroll = 0]

SelectedActionName(a) ==
  IF a.selected_action < Len(worker_actions)
  THEN worker_actions[a.selected_action + 1] ELSE None

focus_right_unguarded(a) ==
  CASE a.focus = "WorkersList" ->
         [a EXCEPT !.focus = "ActionsList", !.selected_action = 0]
    [] a.focus = "ActionsList" ->
         CASE SelectedActionName(a) = "Pull model" ->
                ResetInput([a EXCEPT !.action_panel_state = PanelPullModel,
                                     !.focus = "ActionPanelInput"])
           [] SelectedActionName(a) = "Delete model" ->
                ResetInput([a EXCEPT !.action_panel_state = PanelDeleteModel,
                                     !.focus = "ActionPanelInput"])
           [] OTHER ->
                ResetInput([a EXCEPT !.focus = "GlobalView",
                                     !.action_panel_state = PanelNone])
    [] a.focus = "GlobalView" ->
         ResetInput([a EXCEPT !.focus = "WorkersList",
                              !.action_panel_state = PanelNone])
    [] a.focus = "ActionPanelInput" ->
         [a EXCEPT !.action_input_cursor_position =
            Min(@ + 1, Len(a.action_input_model_name))]
    [] a.focus = "ActionPanelConfirm" ->
         IF a.confirmation_selection = 0
         THEN [a EXCEPT !.confirmation_selection = 1] ELSE a
    [] OTHER -> a

\* focus_right without its in-progress guard.
focus_right_always(a) == focus_right_unguarded(a)

focus_right(a) ==
  IF a.is_action_in_progress /\ a.focus # "ActionPanelResponse"
  THEN add_banner(a, "Action in progress. Cannot change focus.")
  ELSE focus_right_unguarded(a)

focus_left_unguarded(a) ==
  CASE a.focus = "ActionsList" -> [a EXCEPT !.focus = "WorkersList"]
    [] a.focus = "GlobalView" ->
         ResetInput([a EXCEPT !.focus = "ActionsList",
                              !.selected_action = 0,
                              !.action_panel_state = PanelNone])
    [] a.focus = "WorkersList" -> a
    [] a.focus = "ActionPanelInput" ->
         [a EXCEPT !.action_input_cursor_position = Max(@ - 1, 0)]
    [] a.focus = "ActionPanelConfirm" ->
         IF a.confirmation_selection = 1
         THEN [a EXCEPT !.confirmation_selection = 0] ELSE a
    [] OTHER ->
         LET b == IF a.action_task_handle # 0
                  THEN add_banner([a EXCEPT !.action_task_handle = 0],
                                  "Action task aborted.")
                  ELSE a
         IN ResetInput([b EXCEPT !.is_action_in_progress = FALSE,
                                 !.action_panel_state = PanelNone,
                                 !.focus = "ActionsList"])

focus_left(a) ==
  IF a.is_action_in_progress /\ a.focus # "ActionPanelResponse"
  THEN add_banner(a, "Action in progress. Cannot change focus.")
  ELSE focus_left_unguarded(a)

\* add_action_output_line without the match on the panel state.
add_action_output_line_any_state(a, line, is_success) ==
  [a EXCEPT !.action_panel_state.lines = Append(@, line),
            !.action_panel_state.ok = is_success]

\* add_action_output_line putting the line in front of the others.
add_action_output_line_in_front(a, line, is_success) ==
  IF a.action_panel_state.kind = "Response"
  THEN [a EXCEPT !.action_panel_state.lines = <<line>> \o @,
                 !.action_panel_state.ok = is_success]
  ELSE a

add_action_output_line(a, line, is_success) ==
  IF a.action_panel_state.kind = "Response"
  THEN [a EXCEPT !.action_panel_state.lines = Append(@, line),
                 !.action_panel_state.ok = is_success]
  ELSE a

(***************************************************************************)
(* The model-name input field.  action_input_model_name is a String: a     *)
(* sequence of bytes here, a character being one byte or, for "é", the two *)
(* bytes C3 A9.  len(), insert() and remove() count bytes; insert() and    *)
(* remove() panic when the index is not on a character boundary.           *)
(***************************************************************************)
Utf8(c) == IF c = "é" THEN <<"C3", "A9">> ELSE <<c>>

IsContinuation(b) == b = "A9"

is_char_boundary(s, i) ==
  \/ i = 0
  \/ i = Len(s)
  \/ i < Len(s) /\ ~IsContinuation(s[i + 1])

\* The bytes of the character that starts at byte index i (0-based).
CharLenAt(s, i) ==
  IF i + 2 <= Len(s) /\ IsContinuation(s[i + 2]) THEN 2 ELSE 1

input_char_panics(a, c) ==
  /\ a.action_input_cursor_position < Len(a.action_input_model_name)
  /\ ~is_char_boundary(a.action_input_model_name, a.action_input_cursor_position)

input_char_into_action_field(a, c) ==
  LET s == a.action_input_model_name
      p == a.action_input_cursor_position
  IN [a EXCEPT
        !.action_input_model_name =
           IF p >= Len(s) THEN s \o Utf8(c)
           ELSE SubSeq(s, 1, p) \o Utf8(c) \o SubSeq(s, p + 1, Len(s)),
        !.action_input_cursor_position = p + 1]

backspace_panics(a) ==
  LET s == a.action_input_model_name
      p == a.action_input_cursor_position
  IN p > 0 /\ (p - 1 >= Len(s) \/ ~is_char_boundary(s, p - 1))

backspace_action_field(a) ==
  LET s == a.action_input_model_name
      p == a.action_input_cursor_position
  IN IF p > 0
     THEN [a EXCEPT
             !.action_input_model_name =
                SubSeq(s, 1, p - 1) \o SubSeq(s, p - 1 + CharLenAt(s, p - 1) + 1, Len(s)),
             !.action_input_cursor_position = p - 1]
     ELSE a

\* worker_statuses' keys without "Unauthenticated", sorted: the name at
\* index selected_worker, or None.  Names sort as w1 < w2 < w3.
WorkerOrder == <<"Unauthenticated", "w1", "w2", "w3">>

SortedNames(S) ==
  SelectSeq(WorkerOrder, LAMBDA n : n \in S /\ n # "Unauthenticated")

get_selected_worker_name(a) ==
  IF ~a.worker_statuses.some THEN None
  ELSE LET names == SortedNames(a.worker_statuses.names)
       IN IF a.selected_worker < Len(names)
          THEN names[a.selected_worker + 1] ELSE None

(***************************************************************************)
(* src/clients/infer_client.rs: the records of the stream.                 *)
(*                                                                         *)
(* serde_json::from_str is a table over the JSON texts the model's streams *)
(* carry: the "status", "message" and "error" members of the parsed value  *)
(* and its to_string().  Any other text does not parse.                    *)
(***************************************************************************)
Absent == [t |-> "absent", v |-> ""]
JNull == [t |-> "null", v |-> ""]
JBool(b) == [t |-> "bool", v |-> b]
JStr(s) == [t |-> "str", v |-> s]
JNum(n) == [t |-> "num", v |-> n]

TPulling == "{\"status\":\"pulling manifest\"}"
TSuccess == "{\"status\":\"success\"}"
TDownloading == "{\"status\":\"downloading\",\"error\":null}"
TNotFound == "{\"error\":\"not found\"}"
TErrorTrue == "{\"status\":\"failed\",\"error\":true}"
TErrorFalse == "{\"message\":\"retrying\",\"error\":false}"
TMessage == "{\"message\":\"hello\"}"
TStatusNum == "{\"status\":5,\"message\":\"five\"}"
TSpaced == "{\"b\": 1, \"a\": 2}"
TNotJson == "not json at all"

JsonTexts ==
  {TPulling, TSuccess, TDownloading, TNotFound, TErrorTrue, TErrorFalse,
   TMessage, TStatusNum, TSpaced}

from_str(text) ==
  CASE text = TPulling ->
         [status |-> JStr("pulling manifest"), message |-> Absent,
          error |-> Absent, repr |-> text]
    [] text = TSuccess ->
         [status |-> JStr("success"), message |-> Absent,
          error |-> Absent, repr |-> text]
    [] text = TDownloading ->
         [status |-> JStr("downloading"), message |-> Absent,
          error |-> JNull, repr |-> text]
    [] text = TNotFound ->
         [status |-> Absent, message |-> Absent,
          error |-> JStr("not found"), repr |-> text]
    [] text = TErrorTrue ->
         [status |-> JStr("failed"), message |-> Absent,
          error |-> JBool("true"), repr |-> text]
    [] text = TErrorFalse ->
         [status |-> Absent, message |-> JStr("retrying"),
          error |-> JBool("false"), repr |-> text]
    [] text = TMessage ->
         [status |-> Absent, message |-> JStr("hello"),
          error |-> Absent, repr |-> text]
    [] text = TStatusNum ->
         [status |-> JNum("5"), message |-> JStr("five"),
          error |-> Absent, repr |-> text]
    [] text = TSpaced ->
         [status |-> Absent, message |-> Absent,
          error |-> Absent, repr |-> "{\"a\":2,\"b\":1}"]

\* serde_json's error for a text that is no JSON value.
ParseError(text) ==
  IF text = TNotJson THEN "expected ident at line 1 column 2"
  ELSE "EOF while parsing a value"

\* json_value.get("status").or(json_value.get("message")), then as_str(),
\* else json_value.to_string().
LineMessage(j) ==
  LET message_val == IF j.status # Absent THEN j.status ELSE j.message
  IN IF message_val.t = "str" THEN message_val.v ELSE j.repr

\* get("error").is_none_or(|err| err.is_null() || !err.as_bool().unwrap_or(false))
is_line_success(j) ==
  \/ j.error = Absent
  \/ j.error = JNull
  \/ ~(j.error = JBool("true"))

(***************************************************************************)
(* The bytes of a stream.  A stream is a sequence of byte runs: the        *)
(* terminator "\n", a white-space byte, the byte FF that is no UTF-8, or a *)
(* run of text bytes that neither starts nor ends with white space.  The   *)
(* loop only looks for b'\n', so how the text bytes are grouped in runs    *)
(* does not matter to it; a chunk is cut between runs.                     *)
(***************************************************************************)
NL == "\n"
BadByte == "<FF>"
IsWhitespace(b) == b \in {" ", "\t", "\r", "\n"}

RECURSIVE TrimStart(_)
TrimStart(s) ==
  IF s # <<>> /\ IsWhitespace(Head(s)) THEN TrimStart(Tail(s)) ELSE s

RECURSIVE TrimEnd(_)
TrimEnd(s) ==
  IF s # <<>> /\ IsWhitespace(s[Len(s)])
  THEN TrimEnd(SubSeq(s, 1, Len(s) - 1)) ELSE s

\* String::from_utf8(bytes)?.trim().to_string(); utf8 is FALSE when the
\* bytes are no UTF-8.
DecodeTrim(bytes) ==
  IF \E i \in DOMAIN bytes : bytes[i] = BadByte
  THEN [utf8 |-> FALSE, text |-> ""]
  ELSE [utf8 |-> TRUE, text |-> Cat(TrimEnd(TrimStart(bytes)))]

\* buffer.iter().position(|&b| b == b'\n'), 1-based; 0 when there is none.
NewlinePos(buffer) ==
  IF \E i \in DOMAIN buffer : buffer[i] = NL
  THEN CHOOSE i \in DOMAIN buffer :
         buffer[i] = NL /\ \A j \in 1..(i - 1) : buffer[j] # NL
  ELSE 0

\* The buffer replaced by the chunk: the bytes carried over are lost.
ExtendBufferNoCarry(buffer, chunk) == chunk

\* buffer.extend_from_slice(&chunk)
ExtendBuffer(buffer, chunk) == buffer \o chunk

(***************************************************************************)
(* The action task: the future handle_events spawns (handler.rs 165-231),  *)
(* with pull_model / delete_model inlined.  pc names the await the task    *)
(* is at:                                                                  *)
(*   client_err   lock at handler.rs:172 (HiveInferClient::new failed)     *)
(*   proceed      lock at handler.rs:183                                   *)
(*   user_cancel  lock at handler.rs:209                                   *)
(*   request      post_raw / delete_raw (infer_client.rs:71, 168)          *)
(*   next         byte_stream.next() (infer_client.rs:80, 176)             *)
(*   line_a, line_b   the locks for one terminated line (109-120)          *)
(*   rest_a, rest_b   the locks for the unterminated remainder (131-149)   *)
(*   final_line   lock at infer_client.rs:159, 250                         *)
(*   finish       lock at handler.rs:214                                   *)
(*   done, dead   returned; dropped by the runtime after an abort          *)
(***************************************************************************)
TaskUnspawned ==
  [ pc |-> "unspawned", cancelled |-> FALSE,
    action_state |-> PanelNone, node |-> None,
    stream |-> <<>>, net |-> <<>>, buffer |-> <<>>, cur |-> "",
    overall_success |-> TRUE, api_err |-> None, log |-> <<>> ]

\* The future has returned ("done") or has been dropped by the runtime
\* ("dead"): its locals no longer exist.
Dropped(k, pc) == [TaskUnspawned EXCEPT !.pc = pc, !.cancelled = k.cancelled]

IsPull(k) == k.action_state.atype = "Pull"

ErrorBanner(k, message) ==
  (IF IsPull(k) THEN "Pull Error: " ELSE "Delete Error: ") \o message

\* The line for a text that is no JSON, without the text.
NonJsonNoText(text) == "Non-JSON line (Parse Error: " \o ParseError(text) \o ")"

NonJson(text) ==
  "Non-JSON line: " \o text \o " (Parse Error: " \o ParseError(text) \o ")"

NonJsonFinal(text) ==
  "Non-JSON final line: " \o text \o " (Parse Error: " \o ParseError(text) \o ")"

FinalMessage(k) ==
  IF IsPull(k)
  THEN (IF k.overall_success THEN "Model pull completed successfully."
        ELSE "Model pull completed with errors.")
  ELSE (IF k.overall_success THEN "Model delete completed successfully."
        ELSE "Model delete completed with errors.")

\* pull_model / delete_model returned Err(e): handler.rs 195, 201.
Failed(k, e) ==
  [k EXCEPT !.pc = "finish",
            !.api_err = (IF IsPull(k) THEN "Pull failed: " ELSE "Delete failed: ") \o e]

ErrTransport == "HTTP error: error decoding response body"
ErrRequest == "HTTP error: error sending request"
ErrUtf8 == "Decoding error: invalid utf-8 sequence"
ErrClient == "Invalid header: failed to parse header value"

Parses(text) == text \in JsonTexts

\* The line just decoded, with overall_success left as it was.
StartLineKeepsSuccess(k, text, pc) == [k EXCEPT !.cur = text, !.pc = pc]

\* The line just decoded: the local overall_success is cleared before the
\* first lock for the line is awaited.
StartLine(k, text, pc) ==
  [k EXCEPT !.cur = text, !.pc = pc,
            !.overall_success =
               IF Parses(text) /\ is_line_success(from_str(text)) THEN @ ELSE FALSE]

\* `while let Some(newline_pos) = buffer.iter().position(..)`: up to the
\* first await.
RECURSIVE Scan(_)
Scan(k) ==
  LET p == NewlinePos(k.buffer)
      rest == SubSeq(k.buffer, p + 1, Len(k.buffer))
      d == DecodeTrim(SubSeq(k.buffer, 1, p))
  IN IF p = 0 THEN [k EXCEPT !.pc = "next"]
     ELSE IF ~d.utf8 THEN Failed([k EXCEPT !.buffer = rest], ErrUtf8)
     ELSE IF d.text = "" THEN Scan([k EXCEPT !.buffer = rest])
     ELSE StartLine([k EXCEPT !.buffer = rest], d.text, "line_a")

\* byte_stream.next() returned Some(Ok(chunk)).
OnChunk(k, chunk) == Scan([k EXCEPT !.buffer = ExtendBuffer(@, chunk)])

\* byte_stream.next() returned None: the remainder, up to the first await.
OnEnd(k) ==
  LET d == DecodeTrim(k.buffer)
  IN IF k.buffer = <<>> THEN [k EXCEPT !.pc = "final_line"]
     ELSE IF ~d.utf8 THEN Failed([k EXCEPT !.buffer = <<>>], ErrUtf8)
     ELSE IF d.text = "" THEN [k EXCEPT !.buffer = <<>>, !.pc = "final_line"]
     ELSE StartLine([k EXCEPT !.buffer = <<>>], d.text, "rest_a")

\* One `app_arc.lock().await.add_action_output_line(line, ok)` of the task.
Emit(r, line, ok) ==
  [ task |-> [r.task EXCEPT !.log = Append(@, [line |-> line, ok |-> ok])],
    app |-> add_action_output_line(r.app, line, ok) ]

Banner(r, msg) == [r EXCEPT !.app = add_banner(@, msg)]

Goto(r, pc) == [r EXCEPT !.task.pc = pc]

Rescan(r) == [r EXCEPT !.task = Scan(@)]

\* The final block without `app_locked.is_action_in_progress = false`.
FinishBlockKeepsFlag(k, a) ==
  LET p == a.action_panel_state
      lines == IF k.api_err # None THEN Append(p.lines, k.api_err) ELSE p.lines
      b == IF p.kind = "Response"
           THEN [a EXCEPT !.action_panel_state.ok = IF k.api_err # None THEN FALSE ELSE @,
                          !.action_panel_state.lines = lines,
                          !.action_panel_scroll = Max(Len(lines) - 1, 0) % U16]
           ELSE a
  IN [ task |-> Dropped(k, "done"), app |-> b ]

\* The final block of the task, handler.rs 214-230.
FinishBlock(k, a) ==
  LET p == a.action_panel_state
      lines == IF k.api_err # None THEN Append(p.lines, k.api_err) ELSE p.lines
      b == IF p.kind = "Response"
           THEN [a EXCEPT !.action_panel_state.ok = IF k.api_err # None THEN FALSE ELSE @,
                          !.action_panel_state.lines = lines,
                          !.action_panel_scroll = Max(Len(lines) - 1, 0) % U16]
           ELSE a
  IN [ task |-> Dropped(k, "done"),
       app |-> [b EXCEPT !.is_action_in_progress = FALSE] ]

\* The critical section the task enters at pc, and where it goes next.
TaskLockStep(k, a) ==
  LET r == [task |-> k, app |-> a]
      j == from_str(k.cur)
      msg == LineMessage(j)
  IN CASE k.pc = "client_err" ->
            [ Emit(Banner(r, "Failed to create InferClient: " \o ErrClient),
                   "Client error: " \o ErrClient, FALSE)
              EXCEPT !.app.is_action_in_progress = FALSE, !.task = Dropped(k, "done") ]
       [] k.pc = "proceed" ->
            IF a.confirmation_selection = 0
            THEN IF k.action_state.kind = "Confirmation"
                 THEN Goto(r, "request")
                 ELSE [r EXCEPT !.task.pc = "finish",
                                !.task.api_err = "Unexpected action panel state."]
            ELSE Goto(r, "user_cancel")
       [] k.pc = "user_cancel" ->
            Goto(Emit(r, "Action cancelled by user.", TRUE), "finish")
       [] k.pc = "line_a" ->
            IF Parses(k.cur)
            THEN IF is_line_success(j)
                 THEN Rescan(Emit(r, msg, TRUE))
                 ELSE Goto(Banner(r, ErrorBanner(k, msg)), "line_b")
            ELSE Goto(Emit(r, NonJson(k.cur), FALSE), "line_b")
       [] k.pc = "line_b" ->
            IF Parses(k.cur)
            THEN Rescan(Emit(r, msg, FALSE))
            ELSE Rescan(Banner(r, NonJson(k.cur)))
       [] k.pc = "rest_a" ->
            IF Parses(k.cur)
            THEN Goto(Emit(r, msg, is_line_success(j)), "final_line")
            ELSE Goto(Emit(r, NonJsonFinal(k.cur), FALSE), "rest_b")
       [] k.pc = "rest_b" ->
            Goto(Banner(r, NonJsonFinal(k.cur)), "final_line")
       [] k.pc = "final_line" ->
            Goto(Emit(r, FinalMessage(k), k.overall_success), "finish")
       [] k.pc = "finish" -> FinishBlock(k, a)

LockPcs ==
  {"client_err", "proceed", "user_cancel", "line_a", "line_b",
   "rest_a", "rest_b", "final_line", "finish"}

NetworkPcs == {"request", "next"}

(***************************************************************************)
(* src/events/handler.rs: what handle_events does with one Input event, as *)
(* a function of the App it locks.  The result names the App it leaves,    *)
(* the task handle it called abort() on (0: none) and how the iteration    *)
(* ends: continue, break (loop left), return (handle_events returns),      *)
(* spawn (the task is spawned after drop(app)), generate (the Console      *)
(* request is awaited with the guard still alive) or panic.                *)
(***************************************************************************)
Key(code) == [code |-> code, ch |-> "", mod |-> FALSE]
CharKey(c) == [code |-> "Char", ch |-> c, mod |-> FALSE]
ModCharKey(c) == [code |-> "Char", ch |-> c, mod |-> TRUE]

IsChar(key, c) == key.code = "Char" /\ key.ch = c

H(a, ctl, abort) == [app |-> a, ctl |-> ctl, abort |-> abort]

\* The handle focus_left aborts (app.rs 346-349).
focus_left_aborts(a) ==
  IF ~(a.is_action_in_progress /\ a.focus # "ActionPanelResponse")
     /\ a.focus = "ActionPanelResponse"
  THEN a.action_task_handle ELSE 0

\* handler.rs 45: the in-progress guard of the Input arm.
InProgressGuard(a) ==
  a.is_action_in_progress /\ a.focus # "ActionPanelResponse"

\* handler.rs 54-61
GuardEscape(a) ==
  add_banner(ResetInput([a EXCEPT !.action_task_handle = 0,
                                  !.is_action_in_progress = FALSE,
                                  !.action_panel_state = PanelNone,
                                  !.focus = "ActionsList"]),
             "Action cancelled by user.")

\* handler.rs 46-67
GuardedKey(a, key) ==
  IF IsChar(key, "q") THEN H(a, "break", 0)
  ELSE IF key.code = "Esc" /\ a.focus \in {"ActionPanelInput", "ActionPanelConfirm"}
  THEN H(GuardEscape(a), "continue", a.action_task_handle)
  ELSE H(add_banner(a, "Action in progress. Input ignored."), "continue", 0)

\* on_enter_main_view opening the input panel without clearing the buffer
\* and the cursor.
on_enter_main_view_keeps_input(a, client_ok) ==
  CASE a.current_tab = "Dashboard" ->
         IF a.focus = "ActionsList"
         THEN CASE SelectedActionName(a) = "Pull model" ->
                     H([a EXCEPT !.action_panel_state = PanelPullModel,
                                 !.focus = "ActionPanelInput"], "continue", 0)
                [] SelectedActionName(a) = "Delete model" ->
                     H([a EXCEPT !.action_panel_state = PanelDeleteModel,
                                 !.focus = "ActionPanelInput"], "continue", 0)
                [] OTHER -> H(a, "continue", 0)
         ELSE H(a, "continue", 0)
    [] a.current_tab = "Console" ->
         IF client_ok THEN H(a, "generate", 0)
         ELSE H(add_banner(a, "Can't contact HiveCore: " \o ErrClient), "continue", 0)
    [] OTHER -> H(a, "continue", 0)

\* handler.rs 347-407, up to its first await.
on_enter_main_view(a, client_ok) ==
  CASE a.current_tab = "Dashboard" ->
         IF a.focus = "ActionsList"
         THEN CASE SelectedActionName(a) = "Pull model" ->
                     H([a EXCEPT !.action_panel_state = PanelPullModel,
                                 !.focus = "ActionPanelInput",
                                 !.action_input_model_name = <<>>,
                                 !.action_input_cursor_position = 0], "continue", 0)
                [] SelectedActionName(a) = "Delete model" ->
                     H([a EXCEPT !.action_panel_state = PanelDeleteModel,
                                 !.focus = "ActionPanelInput",
                                 !.action_input_model_name = <<>>,
                                 !.action_input_cursor_position = 0], "continue", 0)
                [] OTHER -> H(a, "continue", 0)
         ELSE H(a, "continue", 0)
    [] a.current_tab = "Console" ->
         IF client_ok THEN H(a, "generate", 0)
         ELSE H(add_banner(a, "Can't contact HiveCore: " \o ErrClient), "continue", 0)
    [] OTHER -> H(a, "continue", 0)

on_backspace(a) ==
  IF a.current_tab = "Console" /\ a.console_input # <<>>
  THEN [a EXCEPT !.console_input = SubSeq(@, 1, Len(@) - 1)] ELSE a

on_unhandled_character(a, c) ==
  IF a.current_tab = "Console"
  THEN [a EXCEPT !.console_input = Append(@, c)] ELSE a

\* handler.rs 74-87
MainViewKey(a, key, client_ok) ==
  CASE IsChar(key, "q") -> H(a, "break", 0)
    [] key.code = "Left" \/ IsChar(key, "a") ->
         H(focus_left(a), "continue", focus_left_aborts(a))
    [] key.code = "Right" \/ IsChar(key, "d") -> H(focus_right(a), "continue", 0)
    [] key.code = "Up" \/ IsChar(key, "w") -> H(focus_up(a), "continue", 0)
    [] key.code = "Down" \/ IsChar(key, "s") -> H(focus_down(a), "continue", 0)
    [] IsChar(key, "r") -> H(clear_caches(a), "continue", a.action_task_handle)
    [] key.code = "Enter" -> on_enter_main_view(a, client_ok)
    [] key.code = "Backspace" -> H(on_backspace(a), "continue", 0)
    [] key.code = "Char" -> H(on_unhandled_character(a, key.ch), "continue", 0)
    [] OTHER -> H(a, "continue", 0)

\* The input panel with Enter leaving confirmation_selection as it is.
InputPanelKeyKeepsChoice(a, key) ==
  CASE key.code = "Enter" ->
         IF a.action_input_model_name # <<>>
         THEN IF a.action_panel_state.kind \in {"PullModel", "DeleteModel"}
              THEN H([a EXCEPT
                        !.action_panel_state =
                           Confirmation(a.action_input_model_name,
                                        IF a.action_panel_state.kind = "PullModel"
                                        THEN "Pull" ELSE "Delete"),
                        !.focus = "ActionPanelConfirm"], "continue", 0)
              ELSE H([add_banner(a, "Unexpected action state. Please restart action.")
                        EXCEPT !.focus = "ActionsList",
                               !.action_panel_state = PanelNone], "return", 0)
         ELSE H(add_banner(a, "Model name cannot be empty."), "continue", 0)
    [] key.code = "Esc" ->
         H(ResetInput([a EXCEPT !.action_panel_state = PanelNone,
                                !.focus = "ActionsList"]), "continue", 0)
    [] key.code = "Backspace" ->
         IF backspace_panics(a) THEN H(a, "panic", 0)
         ELSE H(backspace_action_field(a), "continue", 0)
    [] key.code = "Left" -> H(focus_left(a), "continue", focus_left_aborts(a))
    [] key.code = "Right" -> H(focus_right(a), "continue", 0)
    [] key.code = "Char" ->
         IF key.mod THEN H(a, "continue", 0)
         ELSE IF input_char_panics(a, key.ch) THEN H(a, "panic", 0)
         ELSE H(input_char_into_action_field(a, key.ch), "continue", 0)
    [] OTHER -> H(a, "continue", 0)

\* handler.rs 88-134
InputPanelKey(a, key) ==
  CASE key.code = "Enter" ->
         IF a.action_input_model_name # <<>>
         THEN IF a.action_panel_state.kind \in {"PullModel", "DeleteModel"}
              THEN H([a EXCEPT
                        !.action_panel_state =
                           Confirmation(a.action_input_model_name,
                                        IF a.action_panel_state.kind = "PullModel"
                                        THEN "Pull" ELSE "Delete"),
                        !.focus = "ActionPanelConfirm",
                        !.confirmation_selection = 0], "continue", 0)
              ELSE H([add_banner(a, "Unexpected action state. Please restart action.")
                        EXCEPT !.focus = "ActionsList",
                               !.action_panel_state = PanelNone], "return", 0)
         ELSE H(add_banner(a, "Model name cannot be empty."), "continue", 0)
    [] key.code = "Esc" ->
         H(ResetInput([a EXCEPT !.action_panel_state = PanelNone,
                                !.focus = "ActionsList"]), "continue", 0)
    [] key.code = "Backspace" ->
         IF backspace_panics(a) THEN H(a, "panic", 0)
         ELSE H(backspace_action_field(a), "continue", 0)
    [] key.code = "Left" -> H(focus_left(a), "continue", focus_left_aborts(a))
    [] key.code = "Right" -> H(focus_right(a), "continue", 0)
    [] key.code = "Char" ->
         IF key.mod THEN H(a, "continue", 0)
         ELSE IF input_char_panics(a, key.ch) THEN H(a, "panic", 0)
         ELSE H(input_char_into_action_field(a, key.ch), "continue", 0)
    [] OTHER -> H(a, "continue", 0)

\* The initial Response without its placeholder line.
InitialResponseNoLines(a) ==
  LET p == a.action_panel_state
  IN [a EXCEPT
        !.action_panel_state =
           Response(IF p.kind = "Confirmation" THEN p.name ELSE <<>>,
                    IF p.kind = "Confirmation" THEN p.atype ELSE "Pull",
                    <<>>, TRUE),
        !.focus = "ActionPanelResponse",
        !.is_action_in_progress = TRUE]

\* The initial Response without `app.is_action_in_progress = true`.
InitialResponseFlagUnset(a) ==
  LET p == a.action_panel_state
  IN [a EXCEPT
        !.action_panel_state =
           Response(IF p.kind = "Confirmation" THEN p.name ELSE <<>>,
                    IF p.kind = "Confirmation" THEN p.atype ELSE "Pull",
                    <<"Initiating action...">>, TRUE),
        !.focus = "ActionPanelResponse"]

\* handler.rs 152-160: the App Enter leaves before drop(app).
\* The initial Response without `app.focus = Focus::ActionPanelResponse`.
InitialResponseKeepsFocus(a) ==
  LET p == a.action_panel_state
  IN [a EXCEPT
        !.action_panel_state =
           Response(IF p.kind = "Confirmation" THEN p.name ELSE <<>>,
                    IF p.kind = "Confirmation" THEN p.atype ELSE "Pull",
                    <<"Initiating action...">>, TRUE),
        !.is_action_in_progress = TRUE]

InitialResponse(a) ==
  LET p == a.action_panel_state
  IN [a EXCEPT
        !.action_panel_state =
           Response(IF p.kind = "Confirmation" THEN p.name ELSE <<>>,
                    IF p.kind = "Confirmation" THEN p.atype ELSE "Pull",
                    <<"Initiating action...">>, TRUE),
        !.focus = "ActionPanelResponse",
        !.is_action_in_progress = TRUE]

\* The confirmation panel with Left and Right counting up instead of
\* flipping.
ConfirmPanelKeyCounting(a, key) ==
  CASE key.code \in {"Left", "Right"} ->
         H([a EXCEPT !.confirmation_selection = @ + 1], "continue", 0)
    [] key.code = "Enter" -> H(InitialResponse(a), "spawn", 0)
    [] key.code = "Esc" ->
         H(ResetInput([a EXCEPT !.action_panel_state = PanelNone,
                                !.focus = "ActionsList"]), "continue", 0)
    [] OTHER -> H(a, "continue", 0)

\* handler.rs 135-246
ConfirmPanelKey(a, key) ==
  CASE key.code \in {"Left", "Right"} ->
         IF a.confirmation_selection > 1 THEN H(a, "panic", 0)
         ELSE H([a EXCEPT !.confirmation_selection = 1 - @], "continue", 0)
    [] key.code = "Enter" -> H(InitialResponse(a), "spawn", 0)
    [] key.code = "Esc" ->
         H(ResetInput([a EXCEPT !.action_panel_state = PanelNone,
                                !.focus = "ActionsList"]), "continue", 0)
    [] OTHER -> H(a, "continue", 0)

\* The dismissal without `app.focus = Focus::ActionsList`.
DismissResponseKeepsFocus(a) ==
  add_banner(ResetInput([a EXCEPT !.action_task_handle = 0,
                                  !.is_action_in_progress = FALSE,
                                  !.action_panel_state = PanelNone]),
             "Response dismissed, action aborted if running.")

\* The dismissal without `app.is_action_in_progress = false`.
DismissResponseKeepsFlag(a) ==
  add_banner(ResetInput([a EXCEPT !.action_task_handle = 0,
                                  !.action_panel_state = PanelNone,
                                  !.focus = "ActionsList"]),
             "Response dismissed, action aborted if running.")

\* handler.rs 251-261 and 263-273: the same statements.
DismissResponse(a) ==
  add_banner(ResetInput([a EXCEPT !.action_task_handle = 0,
                                  !.is_action_in_progress = FALSE,
                                  !.action_panel_state = PanelNone,
                                  !.focus = "ActionsList"]),
             "Response dismissed, action aborted if running.")

\* handler.rs 247-276
ResponsePanelKey(a, key) ==
  CASE key.code = "Up" \/ IsChar(key, "w") -> H(focus_up(a), "continue", 0)
    [] key.code = "Down" \/ IsChar(key, "s") -> H(focus_down(a), "continue", 0)
    [] OTHER -> H(DismissResponse(a), "continue", a.action_task_handle)

\* handler.rs 40-279: Event::Input(key).
HandleInput(a, key, client_ok) ==
  IF InProgressGuard(a) THEN GuardedKey(a, key)
  ELSE CASE a.focus \in MainViewFocus -> MainViewKey(a, key, client_ok)
         [] a.focus = "ActionPanelInput" -> InputPanelKey(a, key)
         [] a.focus = "ActionPanelConfirm" -> ConfirmPanelKey(a, key)
         [] a.focus = "ActionPanelResponse" -> ResponsePanelKey(a, key)

\* The task Enter spawns (handler.rs 142-150, 165): what the future
\* captures, and where HiveInferClient::new leaves it.
SpawnedTask(a, client_ok) ==
  [TaskUnspawned EXCEPT
     !.pc = IF client_ok THEN "proceed" ELSE "client_err",
     !.action_state = a.action_panel_state,
     !.node = get_selected_worker_name(a)]

\* abort() left out: the handle is dropped and the task goes on.
AbortTaskDetached(ts, h) == ts

\* AbortHandle::abort() on task h.  A task suspended at a network await is
\* dropped without being polled again; a task between two awaits is marked
\* and goes on until an await of its returns Pending.
AbortTask(ts, h) ==
  IF h = 0 \/ ts[h].pc \in {"done", "dead"} THEN ts
  ELSE IF ts[h].pc \in NetworkPcs /\ ~ts[h].cancelled
  THEN [ts EXCEPT ![h] = Dropped([ts[h] EXCEPT !.cancelled = TRUE], "dead")]
  ELSE [ts EXCEPT ![h].cancelled = TRUE]

(***************************************************************************)
(* The state.                                                              *)
(*   app        the App behind Arc<Mutex<App>>                             *)
(*   loop       handle_events: pc is where it stands ("init" before the    *)
(*              manage client, "next" at event_spawner.next(), "store"     *)
(*              between tokio::spawn and the store of the handle,          *)
(*              "generate" inside the Console request, "deadlock",         *)
(*              "panicked", "stopped"); handle is the spawned task's       *)
(*              AbortHandle while pc = "store"                             *)
(*   tasks      the action tasks, by spawn order                           *)
(*   lock_owner who holds the Mutex across steps ("free": nobody)          *)
(*   profile    whether the active profile's tokens make valid headers     *)
(*   queue      the key events of a scripted session that the operator     *)
(*              has yet to type (empty when keys are arbitrary)            *)
(*   spawner    the EventSpawner: its channel, the task of new() that      *)
(*              polls the terminal and sleeps, and the tasks of            *)
(*              add_spawn_interval and push_generate_event                 *)
(***************************************************************************)
VARIABLES app, loop, tasks, lock_owner, profile, queue, spawner

vars == <<app, loop, tasks, lock_owner, profile, queue, spawner>>

TaskIds == 1..MaxTasks

Spawned == {t \in TaskIds : tasks[t].pc # "unspawned"}

\* A task that has neither returned nor been aborted.
Live(t) == tasks[t].pc \notin {"unspawned", "done", "dead"} /\ ~tasks[t].cancelled

\* A task that can still run: Live, or aborted while it was being polled.
Running(t) == tasks[t].pc \notin {"unspawned", "done", "dead"}

\* spawner.rs 23-67: the EventSpawner that new() returns.  chan is the
\* mpsc channel; pc is where the task of new() stands ("select" at the
\* select!, "read" at event::read, "send_input" and "send_tick" at
\* tx.send().await); waited is the time since the poll and the sleep of this
\* iteration were created; since_tick is last_tick.elapsed(), saturating;
\* pending counts the key events the terminal holds; interval and oneshot
\* are the events the tasks of add_spawn_interval and push_generate_event
\* send ("none": no such task); last_sent is the last event enqueued;
\* rx_open is FALSE once the EventSpawner was dropped with handle_events.
SpawnerNew ==
  [chan |-> <<>>, pc |-> "select", waited |-> 0, since_tick |-> 0,
   pending |-> 0, interval |-> "none", oneshot |-> "none",
   last_sent |-> "none", rx_open |-> TRUE]

Init ==
  /\ app = AppNew
  /\ loop = [pc |-> "init", handle |-> 0]
  /\ tasks = [t \in TaskIds |-> TaskUnspawned]
  /\ lock_owner = "free"
  /\ profile \in [client_token_ok : BOOLEAN, admin_token_ok : BOOLEAN]
  /\ queue = <<>>
  /\ spawner = SpawnerNew

\* handler.rs 11-24.  On Err the guard of line 12 is alive when line 20
\* locks again: handle_events never gets past line 20.
LoopInit ==
  /\ loop.pc = "init"
  /\ lock_owner = "free"
  /\ IF profile.admin_token_ok
     THEN loop' = [loop EXCEPT !.pc = "next"] /\ lock_owner' = lock_owner
     ELSE loop' = [loop EXCEPT !.pc = "deadlock"] /\ lock_owner' = "loop"
  /\ UNCHANGED <<app, tasks, profile, queue, spawner>>

\* The keys the terminal sends.
Keys ==
  {Key("Left"), Key("Right"), Key("Up"), Key("Down"), Key("Enter"), Key("Esc"),
   Key("Backspace"), Key("Tab"), CharKey("a"), CharKey("r"), CharKey("q"),
   CharKey("w"), ModCharKey("a")}

\* One iteration of the loop for Event::Input(key), up to where it gives
\* the lock up.
LoopHandle(key) ==
  /\ loop.pc = "next"
  /\ lock_owner = "free"
  /\ LET r == HandleInput(app, key, profile.client_token_ok)
         id == Cardinality(Spawned) + 1
     IN /\ r.ctl = "spawn" => id <= MaxTasks
        /\ app' = r.app
        /\ tasks' = IF r.ctl = "spawn"
                    THEN [tasks EXCEPT ![id] = SpawnedTask(app, profile.client_token_ok)]
                    ELSE AbortTask(tasks, r.abort)
        /\ loop' = CASE r.ctl = "continue" -> loop
                     [] r.ctl = "spawn" -> [pc |-> "store", handle |-> id]
                     [] r.ctl = "generate" -> [loop EXCEPT !.pc = "generate"]
                     [] r.ctl = "panic" -> [loop EXCEPT !.pc = "panicked"]
                     [] OTHER -> [loop EXCEPT !.pc = "stopped"]
        /\ lock_owner' = IF r.ctl = "generate" THEN "loop" ELSE "free"
  /\ UNCHANGED profile

\* The lists the program lets grow without limit, kept within the bounds.
WithinBounds(a) ==
  /\ Len(a.banners) <= MaxBanners
  /\ Len(a.action_input_model_name) <= MaxNameLen
  /\ Len(a.console_input) <= MaxConsoleLen

\* An arbitrary key.
LoopKey(key) ==
  /\ WithinBounds(HandleInput(app, key, profile.client_token_ok).app)
  /\ LoopHandle(key)
  /\ UNCHANGED <<queue, spawner>>

LoopInput == \E key \in Keys : LoopKey(key)

\* handler.rs 234-235
LoopStoreHandle ==
  /\ loop.pc = "store"
  /\ lock_owner = "free"
  /\ app' = [app EXCEPT !.action_task_handle = loop.handle]
  /\ loop' = [pc |-> "next", handle |-> 0]
  /\ UNCHANGED <<tasks, lock_owner, profile, queue, spawner>>

\* handler.rs 308
LoopStop ==
  /\ loop.pc = "next"
  /\ loop' = [loop EXCEPT !.pc = "stopped"]
  /\ UNCHANGED <<app, tasks, lock_owner, profile, queue, spawner>>

(***************************************************************************)
(* The action task.                                                        *)
(***************************************************************************)
\* One critical section of task t, while the banner list has at most cap
\* entries.
TaskLockWithin(t, cap) ==
  /\ tasks[t].pc \in LockPcs
  /\ lock_owner = "free"
  /\ LET r == TaskLockStep(tasks[t], app)
     IN /\ Len(r.app.banners) <= cap
        /\ app' = r.app
        /\ tasks' = [tasks EXCEPT ![t] = r.task]
  /\ UNCHANGED <<loop, lock_owner, profile, queue, spawner>>

TaskLock(t) == TaskLockWithin(t, MaxBanners)

\* What the server may send for a pull or a delete.
CoreStreams == {<<TSuccess, NL>>, <<TErrorTrue, NL>>}

\* infer_client.rs 71-76 / 168-172: send().await returns the response.
TaskResponse(t, streams) ==
  /\ tasks[t].pc = "request"
  /\ \E s \in streams :
       tasks' = [tasks EXCEPT ![t].pc = "next", ![t].net = s, ![t].stream = s]
  /\ UNCHANGED <<app, loop, lock_owner, profile, queue, spawner>>

\* infer_client.rs 73 / 170: send().await returns Err.
TaskRequestError(t) ==
  /\ tasks[t].pc = "request"
  /\ tasks' = [tasks EXCEPT ![t] = Failed(tasks[t], ErrRequest)]
  /\ UNCHANGED <<app, loop, lock_owner, profile, queue, spawner>>

\* infer_client.rs 80-84: stream.next().await returns a chunk.
TaskRecv(t) ==
  /\ tasks[t].pc = "next"
  /\ tasks[t].net # <<>>
  /\ \E n \in 1..Min(MaxChunkLen, Len(tasks[t].net)) :
       tasks' = [tasks EXCEPT ![t] =
                   OnChunk([tasks[t] EXCEPT !.net = SubSeq(@, n + 1, Len(@))],
                           SubSeq(tasks[t].net, 1, n))]
  /\ UNCHANGED <<app, loop, lock_owner, profile, queue, spawner>>

\* infer_client.rs 80, 126: the stream ends.
TaskEnd(t) ==
  /\ tasks[t].pc = "next"
  /\ tasks[t].net = <<>>
  /\ tasks' = [tasks EXCEPT ![t] = OnEnd(tasks[t])]
  /\ UNCHANGED <<app, loop, lock_owner, profile, queue, spawner>>

\* infer_client.rs 81: stream.next().await returns Err.
TaskStreamError(t) ==
  /\ tasks[t].pc = "next"
  /\ tasks' = [tasks EXCEPT ![t] = Failed([tasks[t] EXCEPT !.net = <<>>], ErrTransport)]
  /\ UNCHANGED <<app, loop, lock_owner, profile, queue, spawner>>

\* An aborted task reaches an await that returns Pending and is dropped.
TaskDie(t) ==
  /\ Running(t)
  /\ tasks[t].cancelled
  /\ tasks' = [tasks EXCEPT ![t] = Dropped(tasks[t], "dead")]
  /\ UNCHANGED <<app, loop, lock_owner, profile, queue, spawner>>

TaskStep(t) ==
  \/ TaskLock(t)
  \/ TaskResponse(t, CoreStreams)
  \/ TaskRequestError(t)
  \/ TaskRecv(t)
  \/ TaskEnd(t)
  \/ TaskStreamError(t)
  \/ TaskDie(t)

Next ==
  \/ LoopInit
  \/ LoopInput
  \/ LoopStoreHandle
  \/ LoopStop
  \/ \E t \in TaskIds : TaskStep(t)

Spec == Init /\ [][Next]_vars

(***************************************************************************)
(* The views.  App::next_tab and App::prev_tab switch the view; the code   *)
(* that calls them for the App handle_events works on is not part of the   *)
(* sources (src/main.rs 121-122 calls them in its own loop, on an App      *)
(* without a Mutex).  SwitchView is that caller: a critical section of the *)
(* event loop.                                                             *)
(***************************************************************************)
SwitchView ==
  /\ loop.pc = "next"
  /\ lock_owner = "free"
  /\ \E forward \in BOOLEAN :
       app' = IF forward THEN next_tab(app) ELSE prev_tab(app)
  /\ UNCHANGED <<loop, tasks, lock_owner, profile, queue, spawner>>

\* handler.rs 399-406: api.generate(..).await returns; the guard of
\* handler.rs 71 is dropped at the end of the arm.
GenerateResult == "pong"

LoopGenerateReturn ==
  /\ loop.pc = "generate"
  /\ lock_owner = "loop"
  /\ \E outcome \in {"ok", "not a GenerateResponse", "err"} :
       /\ app' = CASE outcome = "ok" ->
                        [app EXCEPT !.generate_response = GenerateResult,
                                    !.console_output = <<GenerateResult>>]
                   [] outcome = "err" ->
                        add_banner(app, "Inference failed: " \o ErrRequest)
                   [] OTHER -> app
       /\ Len(app'.banners) <= MaxBanners
  /\ loop' = [loop EXCEPT !.pc = "next"]
  /\ lock_owner' = "free"
  /\ UNCHANGED <<tasks, profile, queue, spawner>>

\* The keys the main view of the Console handles.
ViewKeys ==
  {Key("Enter"), Key("Backspace"), CharKey("x"), CharKey("r"), CharKey("q")}

LoopInputViews == \E key \in ViewKeys : LoopKey(key)

NextViews ==
  \/ LoopInit
  \/ SwitchView
  \/ LoopInputViews
  \/ LoopGenerateReturn
  \/ LoopStop

SpecViews == Init /\ [][NextViews]_vars

(***************************************************************************)
(* The store alone: the methods of App (src/app.rs) and the key handlers,  *)
(* applied to App values a caller of the store can build, as a unit test   *)
(* of the store does.  The task a handle names is at its request.          *)
(***************************************************************************)
StorePanels ==
  {PanelNone, PanelPullModel, Confirmation(<<"a">>, "Pull"),
   Response(<<"a">>, "Pull", <<"Initiating action...">>, TRUE)}

StoreApps ==
  {[AppNew EXCEPT !.focus = f, !.is_action_in_progress = b,
                  !.action_panel_state = p, !.action_task_handle = h,
                  !.selected_action = s] :
     f \in Focus, b \in BOOLEAN, p \in StorePanels, h \in {0, 1}, s \in {0, 1}}

TaskAtRequest(atype) ==
  [TaskUnspawned EXCEPT !.pc = "request",
                        !.action_state = Confirmation(<<"a">>, atype)]

InitStore ==
  /\ app \in StoreApps
  /\ loop = [pc |-> "next", handle |-> 0]
  /\ tasks = [t \in TaskIds |->
                IF t = app.action_task_handle THEN TaskAtRequest("Pull")
                ELSE TaskUnspawned]
  /\ lock_owner = "free"
  /\ profile = [client_token_ok |-> TRUE, admin_token_ok |-> TRUE]
  /\ queue = <<>>
  /\ spawner = SpawnerNew

\* A call of a method of App under the lock; aborted is the handle the
\* method calls abort() on.
Call(after, aborted) ==
  /\ loop.pc = "next"
  /\ lock_owner = "free"
  /\ WithinBounds(after)
  /\ app' = after
  /\ tasks' = AbortTask(tasks, aborted)
  /\ UNCHANGED <<loop, lock_owner, profile, queue, spawner>>

CallFocusLeft == Call(focus_left(app), focus_left_aborts(app))
CallFocusRight == Call(focus_right(app), 0)
CallFocusUp == Call(focus_up(app), 0)
CallFocusDown == Call(focus_down(app), 0)
CallClearCaches == Call(clear_caches(app), app.action_task_handle)
CallSetActiveProfile ==
  \E index \in 0..NumProfiles :
    Call(set_active_profile(app, index),
         IF index < NumProfiles THEN app.action_task_handle ELSE 0)

NextStore ==
  \/ CallFocusLeft
  \/ CallFocusRight
  \/ CallFocusUp
  \/ CallFocusDown
  \/ CallClearCaches
  \/ CallSetActiveProfile
  \/ LoopInput
  \/ LoopStoreHandle

SpecStore == InitStore /\ [][NextStore]_vars

(***************************************************************************)
(* The streaming loop alone: a task at its request, in the state the event *)
(* loop leaves when a pull or a delete of model "a" has been confirmed,    *)
(* and every way of cutting a stream into chunks.                          *)
(***************************************************************************)
PullingA == "{\"status\":"
PullingB == "\"pulling manifest\"}"

IngestStreams ==
  { <<PullingA, PullingB, NL, TSuccess, NL>>,
    <<TDownloading, NL, TNotFound, NL>>,
    <<TErrorTrue, NL, " ", NL>>,
    <<TNotJson, NL, TErrorFalse, NL>>,
    <<TMessage, "\r", NL, TStatusNum, NL>>,
    <<TSuccess, NL, BadByte, NL>>,
    <<TSpaced, NL, TMessage>> }

IngestApp(atype) ==
  [AppNew EXCEPT
     !.focus = "ActionPanelResponse",
     !.selected_action = IF atype = "Pull" THEN 0 ELSE 1,
     !.action_panel_state = Response(<<"a">>, atype, <<"Initiating action...">>, TRUE),
     !.action_input_model_name = <<"a">>,
     !.action_input_cursor_position = 1,
     !.action_task_handle = 1,
     !.is_action_in_progress = TRUE]

InitIngest ==
  /\ \E atype \in {"Pull", "Delete"} :
       /\ app = IngestApp(atype)
       /\ tasks = [t \in TaskIds |->
                     IF t = 1 THEN TaskAtRequest(atype) ELSE TaskUnspawned]
  /\ loop = [pc |-> "next", handle |-> 0]
  /\ lock_owner = "free"
  /\ profile = [client_token_ok |-> TRUE, admin_token_ok |-> TRUE]
  /\ queue = <<>>
  /\ spawner = SpawnerNew

IngestStep(t) ==
  \/ TaskLock(t)
  \/ TaskResponse(t, IngestStreams)
  \/ TaskRecv(t)
  \/ TaskEnd(t)

NextIngest == \E t \in TaskIds : IngestStep(t)

SpecIngest == InitIngest /\ [][NextIngest]_vars

\* The task's critical sections run one after the other until it is at a
\* network await or at its final block.
RECURSIVE Drain(_)
Drain(r) ==
  IF r.task.pc \in LockPcs \ {"finish"}
  THEN Drain(TaskLockStep(r.task, r.app)) ELSE r

\* The loop run on stream s delivered as one chunk, from the state the
\* response arrives in.
OneShot(atype, s) ==
  LET r0 == [task |-> [TaskAtRequest(atype) EXCEPT !.pc = "next", !.stream = s],
             app |-> IngestApp(atype)]
      r1 == Drain([r0 EXCEPT !.task = OnChunk(@, s)])
  IN IF r1.task.pc = "next" THEN Drain([r1 EXCEPT !.task = OnEnd(@)]) ELSE r1

(***************************************************************************)
(* A scripted session: the operator's keys are typed in order, the server  *)
(* answers the pull with two records and ends the stream.                  *)
(***************************************************************************)
Llama3 == <<CharKey("l"), CharKey("l"), CharKey("a"), CharKey("m"), CharKey("a"), CharKey("3")>>

E2EScripts ==
  { <<Key("Right"), Key("Enter")>> \o Llama3
      \o <<Key("Enter"), Key("Enter"), Key("Down"), Key("Up")>>,
    <<Key("Right"), Key("Right")>> \o Llama3
      \o <<CharKey("x"), Key("Backspace"), Key("Enter"),
           Key("Right"), Key("Left"), Key("Enter"), CharKey("w")>> }

E2EStream == <<TPulling, NL, TSuccess, NL>>

InitE2E ==
  /\ app = AppNew
  /\ loop = [pc |-> "init", handle |-> 0]
  /\ tasks = [t \in TaskIds |-> TaskUnspawned]
  /\ lock_owner = "free"
  /\ profile = [client_token_ok |-> TRUE, admin_token_ok |-> TRUE]
  /\ queue \in E2EScripts
  /\ spawner = SpawnerNew

\* The next key of the script.
LoopScripted ==
  /\ queue # <<>>
  /\ LoopHandle(Head(queue))
  /\ queue' = Tail(queue)
  /\ UNCHANGED spawner

E2EStep(t) ==
  \/ TaskLock(t)
  \/ TaskResponse(t, {E2EStream})
  \/ TaskRecv(t)
  \/ TaskEnd(t)

NextE2E ==
  \/ LoopInit
  \/ LoopScripted
  \/ LoopStoreHandle
  \/ \E t \in TaskIds : E2EStep(t)

SpecE2E == InitE2E /\ [][NextE2E]_vars

(***************************************************************************)
(* Properties.                                                             *)
(***************************************************************************)
LastBanner == IF app.banners = <<>> THEN None ELSE app.banners[Len(app.banners)]

\* C1: in every reachable state of the event loop and the action task,
\* action_task_handle is Some only if action_panel_state is Response and
\* is_action_in_progress is true.
C1_HandleImpliesResponseInProgress ==
  app.action_task_handle # 0 =>
    app.action_panel_state.kind = "Response" /\ app.is_action_in_progress

\* C2: once a dismissal has aborted the action task, no critical section
\* of that task changes the App: no line, no flag, no banner.
C2_AbortedTaskWritesNothing ==
  [][\A t \in TaskIds : (tasks[t].cancelled /\ TaskLock(t)) => app' = app]_vars

\* C3: at most one action task is spawned, unfinished and not aborted.
C3_AtMostOneLiveTask == Cardinality({t \in TaskIds : Live(t)}) <= 1

\* A second task runs after the first was aborted or has returned.
C3_SecondTaskAfterFirst ==
  \E t, u \in TaskIds :
    /\ t # u
    /\ tasks[t].pc \in {"done", "dead"}
    /\ Live(u)
    /\ app.action_task_handle = u

\* C4: no actor holds the App lock while it waits on a network request:
\* the event loop is not inside a request with its guard alive.
C4_NoLockAcrossNetwork == loop.pc = "generate" => lock_owner = "free"

Llama3Name == <<"l", "l", "a", "m", "a", "3">>

\* C5 (as the code has it): when the operator has pulled "llama3" and the
\* stream has delivered {"status":"pulling manifest"} and
\* {"status":"success"} and ended, the Response holds the placeholder
\* "Initiating action...", the two messages and the final line, and
\* overall_success is true.
C5_FinalResponseWithPlaceholder ==
  (queue = <<>> /\ tasks[1].pc = "done") =>
    app.action_panel_state =
      Response(Llama3Name, "Pull",
               <<"Initiating action...", "pulling manifest", "success",
                 "Model pull completed successfully.">>, TRUE)

\* The session is over and the Response holds the final line.
C5_PullCompleted ==
  /\ queue = <<>>
  /\ tasks[1].pc = "done"
  /\ app.focus = "ActionPanelResponse"
  /\ app.action_panel_state.kind = "Response"
  /\ app.action_panel_state.lines[Len(app.action_panel_state.lines)] =
       "Model pull completed successfully."

\* C5 (as stated): the final output lines are the two messages and the
\* final line, and nothing else.
C5_FinalResponseAsStated ==
  (queue = <<>> /\ tasks[1].pc = "done") =>
    /\ app.action_panel_state.lines =
         <<"pulling manifest", "success", "Model pull completed successfully.">>
    /\ app.action_panel_state.ok

\* C6: the line {"status":"downloading","error":null} is recorded as a
\* success with message "downloading", and the line {"error":"not found"}
\* is recorded as a failure whose message is its JSON text.
C6_ErrorFieldDecidesSuccess ==
  \A t \in TaskIds : \A i \in DOMAIN tasks[t].log :
    /\ (tasks[t].stream[1] = TDownloading /\ i = 1) =>
         tasks[t].log[i] = [line |-> "downloading", ok |-> TRUE]
    /\ (tasks[t].stream[1] = TDownloading /\ i = 2) =>
         tasks[t].log[i] = [line |-> TNotFound, ok |-> FALSE]

\* C7: however the stream is cut into chunks, the loop appends the lines
\* and passes the success flags it does when the stream comes as one chunk.
C7_ChunkingInvariant ==
  \A t \in TaskIds :
    tasks[t].pc = "finish" =>
      LET ref == OneShot(tasks[t].action_state.atype, tasks[t].stream)
      IN /\ tasks[t].log = ref.task.log
         /\ tasks[t].api_err = ref.task.api_err
         /\ app.action_panel_state.lines = ref.app.action_panel_state.lines
         /\ app.action_panel_state.ok = ref.app.action_panel_state.ok

\* A chunk has ended in the middle of a line, after a line was appended.
C7_CutInsideLine ==
  \E t \in TaskIds :
    /\ tasks[t].pc = "next"
    /\ tasks[t].buffer # <<>>
    /\ tasks[t].net # <<>>
    /\ tasks[t].log # <<>>

\* C8: with is_action_in_progress true and the focus not on the Response,
\* focus_left, focus_right and the keys Left, Right and Enter append one
\* banner and change nothing else: no panel, no task.
C8_RejectedAttempt ==
  [][(/\ InProgressGuard(app)
      /\ \/ CallFocusLeft
         \/ CallFocusRight
         \/ \E key \in {Key("Left"), Key("Right"), Key("Enter")} : LoopKey(key))
     => /\ Len(app'.banners) = Len(app.banners) + 1
        /\ SubSeq(app'.banners, 1, Len(app.banners)) = app.banners
        /\ app' = [app EXCEPT !.banners = app'.banners]
        /\ tasks' = tasks
        /\ loop' = loop]_vars

\* An attempt has been rejected.
C8_Rejected ==
  /\ InProgressGuard(app)
  /\ LastBanner \in {"Action in progress. Cannot change focus.",
                     "Action in progress. Input ignored."}

\* C9: clear_caches, called by the refresh key or by set_active_profile
\* while the task of the handle runs, aborts the task, takes the handle,
\* clears is_action_in_progress and sets the panel to None.
C9_ClearCachesAborts ==
  [][\A h \in TaskIds :
       (/\ app.action_task_handle = h
        /\ Live(h)
        /\ \/ CallClearCaches
           \/ \E index \in 0..(NumProfiles - 1) :
                Call(set_active_profile(app, index), h)
           \/ /\ app.focus \in MainViewFocus
              /\ ~InProgressGuard(app)
              /\ LoopKey(CharKey("r")))
       => /\ ~Live(h)'
          /\ app'.action_task_handle = 0
          /\ ~app'.is_action_in_progress
          /\ app'.action_panel_state = PanelNone]_vars

\* clear_caches has aborted a running task.
C9_Cleared ==
  /\ LastBanner = "Cancelled active action task."
  /\ app.action_task_handle = 0
  /\ app.action_panel_state = PanelNone
  /\ \E t \in TaskIds : tasks[t].pc = "dead"

ScrollKeys == {Key("Up"), Key("Down"), CharKey("w"), CharKey("s")}

\* C10: in Response focus every key but the scroll keys takes the handle,
\* aborts its task, clears is_action_in_progress, sets the panel to None,
\* the focus to ActionsList and resets the input buffer, cursor and scroll.
C10_ResponseKeyDismisses ==
  [][\A key \in Keys \ ScrollKeys :
       (app.focus = "ActionPanelResponse" /\ LoopKey(key)) =>
         /\ app'.action_task_handle = 0
         /\ \A h \in TaskIds : app.action_task_handle = h => ~Live(h)'
         /\ ~app'.is_action_in_progress
         /\ app'.action_panel_state = PanelNone
         /\ app'.focus = "ActionsList"
         /\ app'.action_input_model_name = <<>>
         /\ app'.action_input_cursor_position = 0
         /\ app'.action_panel_scroll = 0]_vars

\* A dismissal has aborted a task that had not returned.
C10_DismissedWhileRunning ==
  /\ LastBanner = "Response dismissed, action aborted if running."
  /\ app.focus = "ActionsList"
  /\ \E t \in TaskIds : tasks[t].cancelled

\* C11: a step spawns a task only when it is the Enter key handled in the
\* confirmation panel, every such Enter spawns one, and the same step
\* leaves the panel a Response for the confirmed name and action with the
\* single placeholder line, the focus on it and is_action_in_progress set.
C11_SpawnOnlyByConfirmEnter ==
  [][/\ Spawned' # Spawned =>
          /\ app.focus = "ActionPanelConfirm"
          /\ app.action_panel_state.kind = "Confirmation"
          /\ LoopKey(Key("Enter"))
          /\ Cardinality(Spawned') = Cardinality(Spawned) + 1
          /\ app'.action_panel_state =
                Response(app.action_panel_state.name, app.action_panel_state.atype,
                         <<"Initiating action...">>, TRUE)
          /\ app'.focus = "ActionPanelResponse"
          /\ app'.is_action_in_progress
     /\ (app.focus = "ActionPanelConfirm" /\ LoopKey(Key("Enter")))
          => Spawned' # Spawned]_vars

\* The loop has just spawned a task and has yet to store its handle.
C11_JustSpawned ==
  /\ loop.pc = "store"
  /\ tasks[loop.handle].pc \in {"proceed", "client_err"}
  /\ app.action_panel_state.kind = "Response"
  /\ app.action_panel_state.lines = <<"Initiating action...">>
  /\ app.is_action_in_progress

(***************************************************************************)
(* The confirmed action under fair scheduling.  The operator stands in the *)
(* confirmation panel for model "a" and presses Left, Right, Up, Enter,    *)
(* Esc and 'a'; the server answers with a success record or with a line    *)
(* that is not UTF-8, or the request or the stream fails.  A task          *)
(* that is ready for the Mutex gets it (tokio's Mutex is FIFO-fair and no  *)
(* critical section of the loop or of a task blocks), and a network await  *)
(* of a task returns.  Nothing is assumed about the operator.              *)
(***************************************************************************)
MaxLiveBanners == 1

LiveKeys ==
  {Key("Left"), Key("Right"), Key("Up"), Key("Enter"), Key("Esc"),
   CharKey("a")}

LiveStreams == {<<TSuccess, NL>>, <<BadByte, NL>>}

\* The App which Enter in the input panel leaves (handler.rs 91-101).
ConfirmApp(atype) ==
  [AppNew EXCEPT
     !.focus = "ActionPanelConfirm",
     !.selected_action = IF atype = "Pull" THEN 0 ELSE 1,
     !.action_panel_state = Confirmation(<<"a">>, atype),
     !.action_input_model_name = <<"a">>,
     !.action_input_cursor_position = 1,
     !.confirmation_selection = 0]

InitLive ==
  /\ \E atype \in {"Pull", "Delete"} : app = ConfirmApp(atype)
  /\ loop = [pc |-> "next", handle |-> 0]
  /\ tasks = [t \in TaskIds |-> TaskUnspawned]
  /\ lock_owner = "free"
  /\ profile \in [client_token_ok : BOOLEAN, admin_token_ok : {TRUE}]
  /\ queue = <<>>
  /\ spawner = SpawnerNew

LoopLiveKey(key) ==
  /\ LET after == HandleInput(app, key, profile.client_token_ok).app
     IN /\ Len(after.banners) <= MaxLiveBanners
        /\ Len(after.action_input_model_name) <= MaxNameLen
  /\ LoopHandle(key)
  /\ UNCHANGED <<queue, spawner>>

LoopLiveInput == \E key \in LiveKeys : LoopLiveKey(key)

\* The banners the tasks add come on top of the operator's.
TaskLockLive(t) == TaskLockWithin(t, MaxLiveBanners + MaxTasks)

\* The network await task t is suspended at returns.
TaskNet(t) ==
  \/ TaskResponse(t, LiveStreams)
  \/ TaskRequestError(t)
  \/ TaskRecv(t)
  \/ TaskEnd(t)
  \/ TaskStreamError(t)

NextLive ==
  \/ LoopLiveInput
  \/ LoopStoreHandle
  \/ \E t \in TaskIds : TaskLockLive(t) \/ TaskNet(t) \/ TaskDie(t)

SpecLive ==
  /\ InitLive
  /\ [][NextLive]_vars
  /\ \A t \in TaskIds : WF_vars(TaskLockLive(t)) /\ WF_vars(TaskNet(t))

\* C12: under fair scheduling, whenever is_action_in_progress is true it is
\* false again later, whichever way the confirmed task leaves: no client,
\* the abort choice, a stream that ends, a line that does not decode, a
\* request or a stream that fails.
C12_ActionEventuallyEnds ==
  app.is_action_in_progress ~> ~app.is_action_in_progress

\* The task returned through the transport error of a stream, undismissed.
C12_EndedAfterTransportError ==
  /\ tasks[1].pc = "done"
  /\ ~tasks[1].cancelled
  /\ ~app.is_action_in_progress
  /\ app.action_panel_state.kind = "Response"
  /\ app.action_panel_state.lines =
       <<"Initiating action...", "Pull failed: " \o ErrTransport>>

(***************************************************************************)
(* One confirmed action from its request to its return, with every way the *)
(* remote call can go: the streams of IngestStreams and three more that    *)
(* end without a terminator, in any chunking, a request that fails, a      *)
(* stream that fails at any point.  Nobody presses a key.                  *)
(***************************************************************************)
RunStreams ==
  IngestStreams \cup
    { <<TSuccess, NL, TNotJson>>,
      <<TSuccess, NL, " ", TErrorTrue>>,
      <<TMessage, NL, BadByte>> }

RunStep(t) ==
  \/ TaskLock(t)
  \/ TaskResponse(t, RunStreams)
  \/ TaskRecv(t)
  \/ TaskEnd(t)
  \/ TaskRequestError(t)
  \/ TaskStreamError(t)

NextRun == \E t \in TaskIds : RunStep(t)

SpecRun == InitIngest /\ [][NextRun]_vars

\* The lines a task can append last: the summaries of infer_client.rs
\* 154-158 and 245-249, and the error lines of handler.rs 195-196, 201-202.
SummaryLines ==
  {"Model pull completed successfully.", "Model pull completed with errors.",
   "Model delete completed successfully.", "Model delete completed with errors."}
  \cup {p \o e : p \in {"Pull failed: ", "Delete failed: "},
                 e \in {ErrTransport, ErrRequest, ErrUtf8}}

\* No line of the byte stream s is a failure: each one is UTF-8 and, unless
\* blank, is a JSON document whose error field does not flag it.
RECURSIVE StreamHasNoFailure(_)
StreamHasNoFailure(s) ==
  LET p == NewlinePos(s)
      d == DecodeTrim(IF p = 0 THEN s ELSE SubSeq(s, 1, p))
  IN \/ s = <<>>
     \/ /\ d.utf8
        /\ d.text = "" \/ (Parses(d.text) /\ is_line_success(from_str(d.text)))
        /\ StreamHasNoFailure(IF p = 0 THEN <<>> ELSE SubSeq(s, p + 1, Len(s)))

C14_AbortChoiceRecorded ==
  \A t \in TaskIds :
    ( /\ Spawned = {t}
      /\ tasks[t].pc = "done"
      /\ ~tasks[t].cancelled
      /\ app.action_panel_state.kind = "Response"
      /\ app.confirmation_selection = 1 ) =>
        LET lines == app.action_panel_state.lines
        IN /\ Cardinality({i \in DOMAIN lines :
                             lines[i] = "Action cancelled by user."}) = 1
           /\ ~app.is_action_in_progress

\* C15: confirmation_selection is 0 or 1 in every state, and a Left or a
\* Right key handled in the confirmation panel turns 0 into 1 and 1 into 0
\* and changes no other field of the App.
C15_SelectionFlips ==
  /\ [](app.confirmation_selection \in {0, 1})
  /\ [][\A key \in {Key("Left"), Key("Right")} :
          (app.focus = "ActionPanelConfirm" /\ LoopKey(key)) =>
             /\ app'.confirmation_selection = 1 - app.confirmation_selection
             /\ app' = [app EXCEPT !.confirmation_selection = app'.confirmation_selection]
             /\ loop'.pc = "next"]_vars

\* The operator has moved the choice to "abort" and has not pressed Enter.
C15_ChoiceFlipped ==
  /\ app.focus = "ActionPanelConfirm"
  /\ app.action_panel_state.kind = "Confirmation"
  /\ app.confirmation_selection = 1

\* C16: Enter handled in the input panel with a name typed opens the
\* confirmation for that name and the panel's action with the choice on
\* "proceed" (0) and adds no banner; with no name typed it appends one
\* banner and changes nothing else.
C16_InputEnter ==
  [][(app.focus = "ActionPanelInput" /\ LoopKey(Key("Enter"))) =>
       IF app.action_input_model_name # <<>>
       THEN /\ app'.focus = "ActionPanelConfirm"
            /\ app'.action_panel_state =
                 Confirmation(app.action_input_model_name,
                              IF app.action_panel_state.kind = "PullModel"
                              THEN "Pull" ELSE "Delete")
            /\ app.action_panel_state.kind \in {"PullModel", "DeleteModel"}
            /\ app'.confirmation_selection = 0
            /\ app'.banners = app.banners
            /\ Spawned' = Spawned
       ELSE /\ app' = [app EXCEPT !.banners = Append(@, "Model name cannot be empty.")]
            /\ UNCHANGED <<loop, tasks, lock_owner>>]_vars

\* Enter has been rejected in an input panel opened after the choice had
\* been left on "abort".
C16_EmptyNameRejected ==
  /\ app.focus = "ActionPanelInput"
  /\ app.action_input_model_name = <<>>
  /\ app.confirmation_selection = 1
  /\ LastBanner = "Model name cannot be empty."

\* C17: after the stream "not json at all\n{"message":"retrying",
\* "error":false}\n" has ended, the task has appended a failed line that
\* holds the raw text, then the line of the record that follows it, then
\* the summary, in this order, and the banner list holds the failed line.
C17_NonJsonLineRecorded ==
  \A t \in TaskIds :
    ( /\ tasks[t].pc = "finish"
      /\ tasks[t].api_err = None
      /\ tasks[t].stream = <<TNotJson, NL, TErrorFalse, NL>> ) =>
        LET failed == "Non-JSON line: " \o TNotJson
                        \o " (Parse Error: expected ident at line 1 column 2)"
        IN /\ tasks[t].log =
                << [line |-> failed, ok |-> FALSE],
                   [line |-> "retrying", ok |-> TRUE],
                   [line |-> IF IsPull(tasks[t])
                             THEN "Model pull completed with errors."
                             ELSE "Model delete completed with errors.",
                    ok |-> FALSE] >>
           /\ app.action_panel_state.lines =
                <<"Initiating action...">>
                  \o [i \in DOMAIN tasks[t].log |-> tasks[t].log[i].line]
           /\ app.banners = <<failed>>

\* The stream with the line that is no JSON has been read to its end.
C17_NonJsonStreamRead ==
  \E t \in TaskIds :
    /\ tasks[t].pc = "finish"
    /\ tasks[t].api_err = None
    /\ tasks[t].stream = <<TNotJson, NL, TErrorFalse, NL>>
    /\ Len(tasks[t].log) = 3

\* The stream of task t has ended on bytes that no terminator follows, and
\* neither the request nor the stream has failed.
EndedUnterminated(t) ==
  /\ tasks[t].pc = "finish"
  /\ tasks[t].stream # <<>>
  /\ tasks[t].stream[Len(tasks[t].stream)] # NL
  /\ tasks[t].api_err \notin
       {p \o e : p \in {"Pull failed: ", "Delete failed: "},
                 e \in {ErrTransport, ErrRequest}}

\* The same bytes followed by a terminator, run from the same state.
Terminated(t) == OneShot(tasks[t].action_state.atype, tasks[t].stream \o <<NL>>)

\* C18: a stream that ends on an unterminated remainder yields the lines,
\* the success flags, the summary and the overall_success of the same
\* bytes followed by a terminator.
C18_RemainderSameLines ==
  \A t \in TaskIds :
    EndedUnterminated(t) =>
      /\ tasks[t].log = Terminated(t).task.log
      /\ app.action_panel_state.lines = Terminated(t).app.action_panel_state.lines
      /\ app.action_panel_state.ok = Terminated(t).app.action_panel_state.ok

\* C19: in Response focus the keys Up and Down leave the panel, its lines,
\* the task handle and is_action_in_progress as they are and move the
\* scroll position: Up lowers it unless it is 0, Down raises it unless it
\* is on the last line.
C19_UpDownScroll ==
  app.focus = "ActionPanelResponse" =>
    LET up == HandleInput(app, Key("Up"), profile.client_token_ok)
        down == HandleInput(app, Key("Down"), profile.client_token_ok)
    IN /\ \A r \in {up, down} :
            /\ r.abort = 0
            /\ r.ctl = "continue"
            /\ r.app.action_panel_state = app.action_panel_state
            /\ r.app.action_task_handle = app.action_task_handle
            /\ r.app.is_action_in_progress = app.is_action_in_progress
       /\ app.action_panel_scroll > 0 =>
            up.app.action_panel_scroll < app.action_panel_scroll
       /\ app.action_panel_scroll + 1 < Len(app.action_panel_state.lines) =>
            down.app.action_panel_scroll > app.action_panel_scroll

(***************************************************************************)
(* The Dashboard's polling.  On Event::Tick the loop, when the tab it      *)
(* captured at the top of the iteration is the Dashboard, awaits five      *)
(* requests of the manage client one after the other and stores each       *)
(* answer that is Ok under the lock (handler.rs 280-307); pc names the     *)
(* request it is at.  The operator presses navigation keys, Esc and 'r'    *)
(* between two ticks.                                                      *)
(***************************************************************************)
PollPcs ==
  <<"poll_status", "poll_connections", "poll_pings", "poll_versions", "poll_tags">>

\* The worker names a status reply may carry.
PollReplies == {{}, {"w1"}, {"w1", "w2"}, {"Unauthenticated", "w1"}}

\* What the request at pc may return: Err, or Ok with a map (the names
\* matter for the status map only).
PollOutcomes(pc) ==
  IF pc = "poll_status"
  THEN {[ok |-> FALSE, names |-> {}]} \cup {[ok |-> TRUE, names |-> S] : S \in PollReplies}
  ELSE {[ok |-> b, names |-> {}] : b \in BOOLEAN}

\* The store with a failed request clearing its cache.
PollStoreClearsOnError(a, pc, reply) ==
  CASE pc = "poll_status" ->
         [a EXCEPT !.worker_statuses =
                      IF reply.ok THEN SomeStatuses(reply.names) ELSE NoStatuses]
    [] pc = "poll_connections" ->
         [a EXCEPT !.worker_connections = IF reply.ok THEN "Some" ELSE None]
    [] pc = "poll_pings" -> [a EXCEPT !.worker_pings = IF reply.ok THEN "Some" ELSE None]
    [] pc = "poll_versions" -> [a EXCEPT !.worker_versions = IF reply.ok THEN "Some" ELSE None]
    [] pc = "poll_tags" -> [a EXCEPT !.worker_tags = IF reply.ok THEN "Some" ELSE None]

\* `if let Ok(resp) = ... { app.<cache> = Some(resp); }`
PollStore(a, pc, reply) ==
  IF ~reply.ok THEN a
  ELSE CASE pc = "poll_status" -> [a EXCEPT !.worker_statuses = SomeStatuses(reply.names)]
         [] pc = "poll_connections" -> [a EXCEPT !.worker_connections = "Some"]
         [] pc = "poll_pings" -> [a EXCEPT !.worker_pings = "Some"]
         [] pc = "poll_versions" -> [a EXCEPT !.worker_versions = "Some"]
         [] pc = "poll_tags" -> [a EXCEPT !.worker_tags = "Some"]

PollNext(pc) ==
  IF pc = "poll_tags" THEN "next"
  ELSE PollPcs[1 + CHOOSE i \in DOMAIN PollPcs : PollPcs[i] = pc]

\* Event::Tick received.
LoopTick ==
  /\ loop.pc = "next"
  /\ lock_owner = "free"
  /\ loop' = IF app.current_tab = "Dashboard"
             THEN [loop EXCEPT !.pc = "poll_status"] ELSE loop
  /\ UNCHANGED <<app, tasks, lock_owner, profile, queue, spawner>>

\* One request of the tick returns and its answer is stored.
LoopPoll ==
  /\ loop.pc \in {PollPcs[i] : i \in DOMAIN PollPcs}
  /\ lock_owner = "free"
  /\ \E reply \in PollOutcomes(loop.pc) : app' = PollStore(app, loop.pc, reply)
  /\ loop' = [loop EXCEPT !.pc = PollNext(loop.pc)]
  /\ UNCHANGED <<tasks, lock_owner, profile, queue, spawner>>

PollKeys ==
  {Key("Left"), Key("Right"), Key("Up"), Key("Down"), Key("Esc"), CharKey("r")}

LoopPollInput == \E key \in PollKeys : LoopKey(key)

InitPoll ==
  /\ app = AppNew
  /\ loop = [pc |-> "next", handle |-> 0]
  /\ tasks = [t \in TaskIds |-> TaskUnspawned]
  /\ lock_owner = "free"
  /\ profile = [client_token_ok |-> TRUE, admin_token_ok |-> TRUE]
  /\ queue = <<>>
  /\ spawner = SpawnerNew

NextPoll ==
  \/ LoopTick
  \/ LoopPoll
  \/ LoopPollInput

SpecPoll == InitPoll /\ [][NextPoll]_vars

\* The workers the list shows: the status map's keys but "Unauthenticated".
SelectableWorkers ==
  IF app.worker_statuses.some THEN SortedNames(app.worker_statuses.names) ELSE <<>>

\* C20: selected_worker is an index of the list of selectable workers
\* whenever that list is not empty, and selected_action is an index of the
\* action list.
C20_SelectionsInRange ==
  /\ SelectableWorkers # <<>> => app.selected_worker < Len(SelectableWorkers)
  /\ app.selected_action < Len(worker_actions)

\* The five caches the tick refreshes, in the order of its requests.
PolledCaches(a) ==
  <<a.worker_statuses, a.worker_connections, a.worker_pings,
    a.worker_versions, a.worker_tags>>

\* C21: a step of the tick at its i-th request leaves the i-th cache as it
\* was or holding a fetched value (never cleared), leaves the other four
\* caches and the rest of the App as they were, and moves on to the next
\* request of the tick (to the next event after the fifth) whether the
\* request failed or not.
C21_FailedFetchKeepsCache ==
  [][LoopPoll =>
       \E i \in DOMAIN PollPcs :
         /\ loop.pc = PollPcs[i]
         /\ loop'.pc = IF i = Len(PollPcs) THEN "next" ELSE PollPcs[i + 1]
         /\ \A j \in DOMAIN PollPcs :
              j # i => PolledCaches(app')[j] = PolledCaches(app)[j]
         /\ \/ PolledCaches(app')[i] = PolledCaches(app)[i]
            \/ IF i = 1 THEN app'.worker_statuses.some
               ELSE PolledCaches(app')[i] = "Some"
         /\ [app' EXCEPT !.worker_statuses = app.worker_statuses,
                         !.worker_connections = app.worker_connections,
                         !.worker_pings = app.worker_pings,
                         !.worker_versions = app.worker_versions,
                         !.worker_tags = app.worker_tags] = app]_vars

\* A tick is over whose status request was applied, whose pings request
\* failed and whose last request was applied all the same.
C21_TickWentOn ==
  /\ loop.pc = "next"
  /\ app.worker_statuses.some
  /\ app.worker_pings = None
  /\ app.worker_tags = "Some"

\* Every cached snapshot of a is None.
NoSnapshot(a) ==
  /\ ~a.worker_statuses.some
  /\ a.worker_connections = None
  /\ a.worker_pings = None
  /\ a.worker_versions = None
  /\ a.worker_tags = None
  /\ a.queue_map = None
  /\ a.auth_keys = None

\* C22: no snapshot is cached at the start; a snapshot that is None
\* becomes Some only by the tick's request for it returning Ok; 'r' handled
\* in the main view leaves every snapshot None at once, and so do
\* clear_caches and a profile switch called on any reachable App.
C22_SnapshotsClearedTogether ==
  /\ NoSnapshot(app)
  /\ [](NoSnapshot(clear_caches(app)))
  /\ [](\A index \in 0..(NumProfiles - 1) : NoSnapshot(set_active_profile(app, index)))
  /\ [][/\ \A i \in DOMAIN PollPcs :
             PolledCaches(app')[i] # PolledCaches(app)[i] =>
               (LoopPoll /\ loop.pc = PollPcs[i]) \/ NoSnapshot(app')
        /\ app'.queue_map = None /\ app'.auth_keys = None
        /\ (app.focus \in MainViewFocus /\ LoopKey(CharKey("r"))) => NoSnapshot(app')
       ]_vars

\* Every snapshot is None although a worker below the first had been
\* selected: the list was fetched and then cleared.
C22_ClearedAfterFetch ==
  /\ NoSnapshot(app)
  /\ app.selected_worker = 1
  /\ loop.pc = "next"

LockKeys == {Key("Left"), Key("Right"), Key("Up"), Key("Enter"), Key("Esc")}

TaskName(t) == "task" \o ToString(t)

\* lock().await of task t returns the guard.
TaskAcquire(t) ==
  /\ tasks[t].pc \in LockPcs
  /\ lock_owner = "free"
  /\ Len(TaskLockStep(tasks[t], app).app.banners) <= MaxLiveBanners + MaxTasks
  /\ lock_owner' = TaskName(t)
  /\ UNCHANGED <<app, loop, tasks, profile, queue, spawner>>

\* The critical section of task t, up to the drop of its guard.
TaskRelease(t) ==
  /\ lock_owner = TaskName(t)
  /\ LET r == TaskLockStep(tasks[t], app)
     IN app' = r.app /\ tasks' = [tasks EXCEPT ![t] = r.task]
  /\ lock_owner' = "free"
  /\ UNCHANGED <<loop, profile, queue, spawner>>

\* An aborted task is dropped wherever it stands, its guard with it
\* unreleased.
TaskDropAnywhere(t) ==
  /\ Running(t)
  /\ tasks[t].cancelled
  /\ tasks' = [tasks EXCEPT ![t] = Dropped(tasks[t], "dead")]
  /\ UNCHANGED <<app, loop, lock_owner, profile, queue, spawner>>

\* An aborted task is dropped at an await that returns Pending: one of its
\* network awaits or a lock().await that has not returned.
TaskDrop(t) ==
  /\ Running(t)
  /\ tasks[t].cancelled
  /\ lock_owner # TaskName(t)
  /\ tasks' = [tasks EXCEPT ![t] = Dropped(tasks[t], "dead")]
  /\ UNCHANGED <<app, loop, lock_owner, profile, queue, spawner>>

LoopLockInput == \E key \in LockKeys : LoopLiveKey(key)

NextLock ==
  \/ LoopLockInput
  \/ LoopStoreHandle
  \/ \E t \in TaskIds : TaskAcquire(t) \/ TaskRelease(t) \/ TaskNet(t) \/ TaskDrop(t)

SpecLock ==
  /\ InitLive
  /\ [][NextLock]_vars
  /\ \A t \in TaskIds : WF_vars(TaskRelease(t))

PollWindow == 10

\* spawner.rs 58: the least last_tick.elapsed() for a Tick, in units of 20 ms
TickGap == 1

\* spawner.rs 24 has mpsc::channel(20)
ChanCap == 2

\* the key events the terminal buffers
MaxPending == 1

\* tx.send(event).await that finds room: Err when the receiver is gone,
\* which every caller ignores.
Sent(s, event) ==
  IF s.rx_open
  THEN [s EXCEPT !.chan = Append(s.chan, event), !.last_sent = event]
  ELSE s

CanSend(s) == ~s.rx_open \/ Len(s.chan) < ChanCap

\* The next iteration of the loop of new(): a new poll and a new sleep.
Iterate(s) == [s EXCEPT !.pc = "select", !.waited = 0]

\* The operator presses a key within the poll window: after the poll
\* began and before it times out.
KeyPress ==
  /\ spawner.pc = "select"
  /\ spawner.waited \in 1..(PollWindow - 1)
  /\ spawner.pending < MaxPending
  /\ spawner' = [spawner EXCEPT !.pending = @ + 1]
  /\ UNCHANGED <<app, loop, tasks, lock_owner, profile, queue>>

\* 20 ms pass while the select! waits with no key for the poll to report.
Advance ==
  /\ spawner.pc = "select"
  /\ spawner.waited < PollWindow
  /\ spawner.pending = 0
  /\ spawner' = [spawner EXCEPT !.waited = @ + 1,
                                !.since_tick = Min(@ + 1, TickGap)]
  /\ UNCHANGED <<app, loop, tasks, lock_owner, profile, queue>>

\* spawner.rs 36-39: the poll branch with Ok(Ok(true)).
PollTrue ==
  /\ spawner.pc = "select"
  /\ spawner.pending > 0
  /\ spawner' = [spawner EXCEPT !.pc = "read"]
  /\ UNCHANGED <<app, loop, tasks, lock_owner, profile, queue>>

\* spawner.rs 45-47: the poll branch with Ok(Ok(false)).
PollFalse ==
  /\ spawner.pc = "select"
  /\ spawner.waited = PollWindow
  /\ spawner.pending = 0
  /\ spawner' = Iterate(spawner)
  /\ UNCHANGED <<app, loop, tasks, lock_owner, profile, queue>>

\* spawner.rs 57-62: the sleep branch.
SleepFires ==
  /\ spawner.pc = "select"
  /\ spawner.waited = PollWindow
  /\ spawner' = IF spawner.since_tick >= TickGap
                THEN [spawner EXCEPT !.pc = "send_tick"]
                ELSE Iterate(spawner)
  /\ UNCHANGED <<app, loop, tasks, lock_owner, profile, queue>>

\* spawner.rs 39: event::read
ReadKey ==
  /\ spawner.pc = "read"
  /\ spawner' = [spawner EXCEPT !.pc = "send_input", !.pending = @ - 1]
  /\ UNCHANGED <<app, loop, tasks, lock_owner, profile, queue>>

\* spawner.rs 40
SendInput ==
  /\ spawner.pc = "send_input"
  /\ CanSend(spawner)
  /\ spawner' = Iterate(Sent(spawner, "Input"))
  /\ UNCHANGED <<app, loop, tasks, lock_owner, profile, queue>>

\* spawner.rs 59-60
SendTick ==
  /\ spawner.pc = "send_tick"
  /\ CanSend(spawner)
  /\ spawner' = Iterate([Sent(spawner, "Tick") EXCEPT !.since_tick = 0])
  /\ UNCHANGED <<app, loop, tasks, lock_owner, profile, queue>>

\* spawner.rs 73-82: the task of add_spawn_interval sends once more.
IntervalSend ==
  /\ spawner.interval # "none"
  /\ spawner.rx_open
  /\ Len(spawner.chan) < ChanCap
  /\ spawner' = Sent(spawner, spawner.interval)
  /\ UNCHANGED <<app, loop, tasks, lock_owner, profile, queue>>

\* spawner.rs 84-90: the task of push_generate_event sends and ends.
OneShotSend ==
  /\ spawner.oneshot # "none"
  /\ CanSend(spawner)
  /\ spawner' = [Sent(spawner, spawner.oneshot) EXCEPT !.oneshot = "none"]
  /\ UNCHANGED <<app, loop, tasks, lock_owner, profile, queue>>

\* spawner.rs 69-71 and the arms of handler.rs 39, 280 and 308 as far as
\* they decide whether the loop goes on: Stop breaks, a key may be the 'q'
\* of handler.rs 47 and 76, Tick goes on.  When handle_events returns, the
\* EventSpawner is dropped, the receiver and what it holds with it.
SpawnerNext ==
  /\ loop.pc = "next"
  /\ spawner.chan # <<>>
  /\ \E quit \in BOOLEAN :
       /\ quit => Head(spawner.chan) = "Input"
       /\ IF quit \/ Head(spawner.chan) = "Stop"
          THEN /\ loop' = [loop EXCEPT !.pc = "stopped"]
               /\ spawner' = [spawner EXCEPT !.chan = <<>>, !.rx_open = FALSE]
          ELSE /\ loop' = loop
               /\ spawner' = [spawner EXCEPT !.chan = Tail(@)]
  /\ UNCHANGED <<app, tasks, lock_owner, profile, queue>>

\* handle_events is given an EventSpawner on which add_spawn_interval may
\* have been called for a periodic Tick and push_generate_event for a Stop
\* after a delay.
InitSpawner ==
  /\ app = AppNew
  /\ loop = [pc |-> "next", handle |-> 0]
  /\ tasks = [t \in TaskIds |-> TaskUnspawned]
  /\ lock_owner = "free"
  /\ profile = [client_token_ok |-> TRUE, admin_token_ok |-> TRUE]
  /\ queue = <<>>
  /\ \E interval \in {"none", "Tick"}, oneshot \in {"none", "Stop"} :
       spawner = [SpawnerNew EXCEPT !.interval = interval, !.oneshot = oneshot]

NextSpawner ==
  \/ KeyPress
  \/ Advance
  \/ PollTrue
  \/ PollFalse
  \/ SleepFires
  \/ ReadKey
  \/ SendInput
  \/ SendTick
  \/ IntervalSend
  \/ OneShotSend
  \/ SpawnerNext

\* The runtime runs a task that can run; time passes; a sleep that is ready
\* again and again is at last the branch the select! picks; a sender that
\* waits for room gets it when room is made again and again (the channel
\* serves its senders in order); the loop receives what the channel holds.
\* Nothing is assumed of the operator or of the tasks of add_spawn_interval
\* and push_generate_event.
SpecSpawner ==
  /\ InitSpawner
  /\ [][NextSpawner]_vars
  /\ WF_vars(Advance) /\ WF_vars(PollTrue) /\ WF_vars(ReadKey)
  /\ SF_vars(SendInput) /\ SF_vars(SendTick)
  /\ SF_vars(SleepFires)
  /\ WF_vars(SpawnerNext)

\* C26: while handle_events receives, a Tick is enqueued sooner or later,
\* also when the operator presses a key within every poll window.
C26_TickDespiteKeys == <>(spawner.last_sent = "Tick" \/ ~spawner.rx_open)

\* C27: no Input and no Tick is enqueued behind a Stop, and once
\* handle_events has received Stop it takes nothing more from the channel.
C27_StopIsTerminal ==
  /\ [](\A i, j \in DOMAIN spawner.chan :
          (i < j /\ spawner.chan[i] = "Stop") => spawner.chan[j] = "Stop")
  /\ [][loop.pc = "stopped" => (loop' = loop /\ spawner'.chan = spawner.chan)]_vars

\* C28: from one state to the next, as long as the panel is a Response, the
\* output_lines before the step are the first lines after it, unchanged and
\* in the same order: whatever is written is written behind them.
C28_LinesAppendOnly ==
  [][(app.action_panel_state.kind = "Response"
        /\ app'.action_panel_state.kind = "Response") =>
       LET lines == app.action_panel_state.lines
           after == app'.action_panel_state.lines
       IN /\ Len(lines) <= Len(after)
          /\ SubSeq(after, 1, Len(lines)) = lines]_vars

\* A Response panel that holds the first line, a line of the stream and the
\* summary, while the loop waits for a key.
C28_ThreeLinesShown ==
  /\ app.action_panel_state.kind = "Response"
  /\ Len(app.action_panel_state.lines) >= 3
  /\ app.action_panel_state.lines[1] = "Initiating action..."
  /\ tasks[1].pc = "done"
  /\ loop.pc = "next"

(***************************************************************************)
(* The banners alone: add_banner and dismiss_banner (app.rs 183-193)       *)
(* called in any order on the App of App::new.                             *)
(***************************************************************************)
MaxQueue == 4

BannerTexts ==
  {"Action in progress. Input ignored.",
   "Action in progress. Cannot change focus.",
   "Pull Error: x"}

CallAddBanner ==
  \E msg \in BannerTexts :
    /\ Len(app.banners) < MaxQueue
    /\ app' = add_banner(app, msg)
    /\ UNCHANGED <<loop, tasks, lock_owner, profile, queue, spawner>>

CallDismissBanner ==
  /\ app' = dismiss_banner(app)
  /\ UNCHANGED <<loop, tasks, lock_owner, profile, queue, spawner>>

NextBanners ==
  \/ CallAddBanner
  \/ CallDismissBanner

SpecBanners == InitPoll /\ [][NextBanners]_vars

\* C29: add_banner gives the same banners with the message as one more,
\* last; dismiss_banner gives the banners but the first, each one place
\* earlier, and gives the same App when there is no banner; neither changes
\* another field.
C29_BannersFifo ==
  LET b == app.banners
      dismissed == dismiss_banner(app)
      d == dismissed.banners
  IN /\ \A msg \in BannerTexts :
          LET added == add_banner(app, msg)
              c == added.banners
          IN /\ Len(c) = Len(b) + 1
             /\ c[Len(c)] = msg
             /\ \A i \in 1..Len(b) : c[i] = b[i]
             /\ added = [app EXCEPT !.banners = c]
     /\ b = <<>> => dismissed = app
     /\ b # <<>> =>
          /\ Len(d) = Len(b) - 1
          /\ \A i \in 1..Len(d) : d[i] = b[i + 1]
          /\ dismissed = [app EXCEPT !.banners = d]

\* Three different banners are queued; dismissing takes the one added
\* first and leaves the two others in their order.
C29_OldestDismissed ==
  /\ app.banners = <<"Pull Error: x", "Action in progress. Input ignored.",
                     "Action in progress. Cannot change focus.">>
  /\ dismiss_banner(app).banners =
       <<"Action in progress. Input ignored.",
         "Action in progress. Cannot change focus.">>

(***************************************************************************)
(* The action list with a model name left in the input buffer: App values  *)
(* a caller of the store can build (the fields are pub), the focus on the  *)
(* action list, and the keys handle_events receives.  The tasks that the   *)
(* keys spawn are not scheduled here.                                      *)
(***************************************************************************)
SelectApps ==
  {[AppNew EXCEPT !.focus = "ActionsList",
                  !.action_input_model_name = name,
                  !.action_input_cursor_position = Len(name)] :
     name \in {<<>>, <<"a">>}}

SelectKeys ==
  {Key("Left"), Key("Right"), Key("Up"), Key("Down"), Key("Enter"), Key("Esc"),
   Key("Backspace"), CharKey("a")}

LoopSelectInput == \E key \in SelectKeys : LoopKey(key)

InitSelect ==
  /\ app \in SelectApps
  /\ loop = [pc |-> "next", handle |-> 0]
  /\ tasks = [t \in TaskIds |-> TaskUnspawned]
  /\ lock_owner = "free"
  /\ profile = [client_token_ok |-> TRUE, admin_token_ok |-> TRUE]
  /\ queue = <<>>
  /\ spawner = SpawnerNew

NextSelect ==
  \/ LoopSelectInput
  \/ LoopStoreHandle

SpecSelect == InitSelect /\ [][NextSelect]_vars

\* C30: with the focus on the action list and no action in progress, Right
\* and Enter open the input panel of the selected action (PullModel for
\* "Pull model", DeleteModel for "Delete model") with focus ActionPanelInput,
\* the buffer empty and the cursor at 0, whatever the buffer held.
C30_SelectionOpensEmptyInput ==
  [][(/\ app.focus = "ActionsList"
      /\ ~app.is_action_in_progress
      /\ LoopKey(Key("Right")) \/ LoopKey(Key("Enter"))) =>
       /\ app'.action_panel_state =
            (IF SelectedActionName(app) = "Pull model"
             THEN PanelPullModel ELSE PanelDeleteModel)
       /\ app'.focus = "ActionPanelInput"
       /\ app'.action_input_model_name = <<>>
       /\ app'.action_input_cursor_position = 0]_vars

\* Down has selected "Delete model" while the buffer still holds a name and
\* the cursor stands behind it; Enter gives the input panel of DeleteModel.
C30_SelectedWithLeftover ==
  /\ app.focus = "ActionsList"
  /\ ~app.is_action_in_progress
  /\ app.selected_action = 1
  /\ app.action_input_model_name = <<"a">>
  /\ app.action_input_cursor_position = 1
  /\ HandleInput(app, Key("Enter"), profile.client_token_ok).app.action_panel_state
       = PanelDeleteModel

\* C31: Esc with the focus on the input panel or on the confirmation leaves
\* the panel None, the focus on the action list, the buffer empty and the
\* cursor at 0; no task is spawned, no task changes and the loop goes on to
\* its next event without a request.
C31_EscapeReturnsToIdle ==
  [][(/\ app.focus \in {"ActionPanelInput", "ActionPanelConfirm"}
      /\ LoopKey(Key("Esc"))) =>
       /\ app'.action_panel_state = PanelNone
       /\ app'.focus = "ActionsList"
       /\ app'.action_input_model_name = <<>>
       /\ app'.action_input_cursor_position = 0
       /\ tasks' = tasks
       /\ loop' = loop
       /\ loop.pc = "next"
       /\ lock_owner' = "free"]_vars

\* The confirmation of a name that was typed is shown, and Esc on it gives
\* the action list.
C31_EscapeAtConfirmation ==
  /\ app.focus = "ActionPanelConfirm"
  /\ app.action_panel_state.kind = "Confirmation"
  /\ app.action_input_model_name # <<>>
  /\ loop.pc = "next"
  /\ HandleInput(app, Key("Esc"), profile.client_token_ok).app.focus = "ActionsList"

\* C32: the message of the record a task has just decoded is its "status"
\* when that is a string, else its "message" when that is a string, else the
\* JSON text of the record.
C32_MessagePrefersStrings ==
  \A t \in TaskIds :
    Parses(tasks[t].cur) =>
      LET j == from_str(tasks[t].cur)
      IN LineMessage(j) = IF j.status.t = "str" THEN j.status.v
                          ELSE IF j.message.t = "str" THEN j.message.v
                          ELSE j.repr

\* C33: once the Response panel's overall_success is false (a failure line
\* was recorded), it is false after every later step of the action, also
\* when the step appends a successful line.
C33_FailureSticks ==
  [][(/\ app.action_panel_state.kind = "Response"
      /\ app'.action_panel_state.kind = "Response"
      /\ ~app.action_panel_state.ok) =>
       ~app'.action_panel_state.ok]_vars

\* C34: while the panel is not a Response, add_action_output_line returns
\* the App it was given, for a successful and for a failing line; and a
\* critical section of a task that only calls it (the cancel line, the
\* summary line) leaves the App as it was.
C34_OnlyAppendsInResponse ==
  /\ [](app.action_panel_state.kind # "Response" =>
          \A is_success \in BOOLEAN :
            add_action_output_line(app, "Model pull completed with errors.",
                                   is_success) = app)
  /\ [][\A t \in TaskIds :
          (/\ app.action_panel_state.kind # "Response"
           /\ tasks[t].pc \in {"user_cancel", "final_line"}
           /\ tasks'[t] # tasks[t]) => app' = app]_vars

\* The panel was dismissed and the input panel is open again, while the
\* task of the dismissed action is about to write its summary line.
C34_WriteAfterDismissal ==
  /\ tasks[1].pc = "final_line"
  /\ tasks[1].cancelled
  /\ app.action_panel_state.kind = "PullModel"
  /\ lock_owner = "free"

\* C35: handle_events is never waiting for the Mutex while the guard that
\* keeps it locked is its own.
C35_LoopNeverLocksItself == ~(loop.pc = "deadlock" /\ lock_owner = "loop")

\* C36: whenever is_action_in_progress is true the focus is on the Response
\* panel.
C36_InProgressOnlyInResponse ==
  app.is_action_in_progress => app.focus = "ActionPanelResponse"

\* An action is in progress, its handle is stored and its task is waiting
\* for the stream.
C36_InProgressShown ==
  /\ app.is_action_in_progress
  /\ app.focus = "ActionPanelResponse"
  /\ app.action_task_handle = 1
  /\ tasks[1].pc = "next"
  /\ loop.pc = "next"

(***************************************************************************)
(* From the opening of the action panel to the task: the operator has      *)
(* highlighted one of the workers "w1" and "w2" and has just opened the    *)
(* "Pull model" panel; they type, confirm and dismiss, while Ticks refresh *)
(* the worker caches.  No key of this specification moves the selection in *)
(* the worker list or closes the panel before the confirmation, so the     *)
(* first task is the task of the panel the specification starts in.        *)
(***************************************************************************)
NodeWorkers == {"w1", "w2"}

NodeKeys ==
  {Key("Left"), Key("Right"), Key("Enter"), Key("Backspace"), CharKey("a")}

LoopNodeInput == \E key \in NodeKeys : LoopKey(key)

InitNode ==
  /\ \E selected \in {0, 1} :
       app = [AppNew EXCEPT !.worker_statuses = SomeStatuses(NodeWorkers),
                            !.selected_worker = selected,
                            !.focus = "ActionPanelInput",
                            !.action_panel_state = PanelPullModel]
  /\ loop = [pc |-> "next", handle |-> 0]
  /\ tasks = [t \in TaskIds |-> TaskUnspawned]
  /\ lock_owner = "free"
  /\ profile = [client_token_ok |-> TRUE, admin_token_ok |-> TRUE]
  /\ queue = <<>>
  /\ spawner = SpawnerNew

NextNode ==
  \/ LoopNodeInput
  \/ LoopStoreHandle
  \/ LoopTick
  \/ LoopPoll

SpecNode == InitNode /\ [][NextNode]_vars

\* C37: the node given to the first task is the worker that was highlighted
\* among "w1" and "w2" when the panel was opened.
C37_NodeIsWorkerAtOpening ==
  tasks[1].pc # "unspawned" =>
    tasks[1].node = SortedNames(NodeWorkers)[app.selected_worker + 1]

\* C38: while a Response panel is shown, a critical section of a task that
\* changes the panel's lines or is_action_in_progress is a section of the
\* task spawned last, the task of the Enter that made this panel.
C38_OnlyOwnTaskWritesPanel ==
  [][\A t \in TaskIds :
       (/\ TaskLock(t)
        /\ app.action_panel_state.kind = "Response"
        /\ \/ app'.action_panel_state.lines # app.action_panel_state.lines
           \/ app'.is_action_in_progress # app.is_action_in_progress) =>
         t = Cardinality(Spawned)]_vars

(***************************************************************************)
(* The input panel alone: the "Pull model" panel is open and the operator  *)
(* types 'a' and 'é', deletes and moves the cursor.                        *)
(***************************************************************************)
MaxInputLen == 6

InputKeys ==
  {CharKey("a"), CharKey("é"), Key("Backspace"), Key("Left"), Key("Right")}

LoopInputPanel ==
  \E key \in InputKeys :
    /\ Len(HandleInput(app, key, profile.client_token_ok).app.action_input_model_name)
         <= MaxInputLen
    /\ LoopHandle(key)
    /\ UNCHANGED <<queue, spawner>>

InitInput ==
  /\ app = [AppNew EXCEPT !.focus = "ActionPanelInput",
                          !.action_panel_state = PanelPullModel]
  /\ loop = [pc |-> "next", handle |-> 0]
  /\ tasks = [t \in TaskIds |-> TaskUnspawned]
  /\ lock_owner = "free"
  /\ profile = [client_token_ok |-> TRUE, admin_token_ok |-> TRUE]
  /\ queue = <<>>
  /\ spawner = SpawnerNew

NextInput == LoopInputPanel

SpecInput == InitInput /\ [][NextInput]_vars

\* C39: in the input panel the cursor is a position of the name at which a
\* character can be inserted, between 0 and the length of the name and not
\* inside a character, and no insertion or backspace panics.
C39_CursorIsInsertionPosition ==
  /\ loop.pc # "panicked"
  /\ app.focus = "ActionPanelInput" =>
       /\ app.action_input_cursor_position \in 0..Len(app.action_input_model_name)
       /\ is_char_boundary(app.action_input_model_name,
                           app.action_input_cursor_position)

====
